---- MODULE Spec2Model ----
(***************************************************************************)
(* Streaming metrics and alerting engine of the Kraken volume monitor.     *)
(*                                                                         *)
(* src/src/index.js holds several iterations of the server.  The model     *)
(* runs one of them per behaviour, selected by the variable "variant":     *)
(*   "lookback"  lines 842-1299: 24h lookback metrics, quantizeLevel       *)
(*               hysteresis with cool-down, 5 minute digest;               *)
(*   "stepwise"  lines 347-715: short-window velocity, step index alerts   *)
(*               with reminders.                                           *)
(*                                                                         *)
(* Numbers.  Raw metrics are JavaScript doubles; the model keeps them as   *)
(* exact rationals [n, d] (d > 0, lowest terms).  Values that went through *)
(* pct() have two decimals and are kept as integers in hundredths of a     *)
(* percent (5.00% is 500), and so are the alert threshold, the alert step  *)
(* and the stored alert level.  The clock is Date.now() in milliseconds.   *)
(***************************************************************************)
EXTENDS Integers, Sequences, FiniteSets, TLC

VARIABLES
    variant,     \* which iteration of the server runs
    clock,       \* Date.now(), ms
    perPair,     \* perPair[pair]: the state of a pair
    sent,        \* the calls of slack(), oldest first
    ev,          \* the last event handled and the event counters
    lastDigest,  \* what the previous run of rankAndDigest listed
    digestAt,    \* when the digest timer was set or last fired, ms
    delivery,    \* how the calls of slack() ended, oldest first
    state,       \* polling monitor: state[pair] = { volume, pct }
    latestResults, \* polling monitor: the results of the last complete cycle
    call         \* a single call of a pure function: argument and result

vars == <<variant, clock, perPair, sent, ev, lastDigest, digestAt, call, delivery, state,
          latestResults>>

-----------------------------------------------------------------------------
(* Bounds of the model *)

\* first value of Date.now() in a behaviour (ms); far above the cool-down,
\* as any real clock is
StartMs == 1000000000
\* number of times the clock advances in a behaviour
MaxTicks == 3
\* number of ticker messages handled in a behaviour
MaxObs == 3
\* number of digests posted in a behaviour
MaxDigests == 2
\* quantizeLevel is applied to every multiple of 1/4 of a hundredth of a
\* percent up to MaxDiff hundredths, both signs
MaxDiff == 1100

-----------------------------------------------------------------------------
(* Configuration (defaults of the environment variables) *)

RANK_MODE == "ratio"
RATE_WINDOW_SEC == 60
LOOKBACK_HOURS == 24
DAYBUF_RES_SEC == 60
ALERT_DIFF_THRESHOLD_PCT == 500
ALERT_LEVEL_STEP_PCT == 125
ALERT_MIN_INTERVAL_SEC == 300
DIGEST_EVERY_SEC == 300
DIGEST_TOP_N == 5
DIGEST_MIN_ABS_DELTA_PCT == 300

Max(a, b) == IF a >= b THEN a ELSE b
Min(a, b) == IF a <= b THEN a ELSE b
Abs(a) == IF a < 0 THEN -a ELSE a
Sign(a) == IF a > 0 THEN 1 ELSE IF a < 0 THEN -1 ELSE 0

DAYBUF_KEEP_HRS == Max(LOOKBACK_HOURS + 2, 26)
ALERT_MIN_MS == ALERT_MIN_INTERVAL_SEC * 1000

\* the subscribed pairs, in subscription order
WS_PAIRS == <<"SOL/USD", "XBT/USD">>

Pairs == {WS_PAIRS[i] : i \in 1..Len(WS_PAIRS)}

\* payloads of the ticker messages the feed delivers
Tickers ==
    { [vol24 |-> 100, price |-> 100, avg24 |-> 100],
      [vol24 |-> 105, price |-> 100, avg24 |-> 100],
      [vol24 |-> 106, price |-> 100, avg24 |-> 100],
      [vol24 |-> 106, price |->  98, avg24 |-> 100] }

\* time that may pass between two events (ms)
Steps == {150 * 1000, LOOKBACK_HOURS * 3600 * 1000}

-----------------------------------------------------------------------------
(* Exact arithmetic on the raw (unrounded) metrics *)

RECURSIVE GCD(_, _)
GCD(a, b) == IF b = 0 THEN a ELSE GCD(b, a % b)

\* NaN: as a number of the feed (what parseFloat makes of a field it cannot
\* read) it is a value no volume or price takes; as a metric it is the
\* fraction 0/0.  Arithmetic on NaN gives NaN, a comparison with NaN is false.
NaN == -2147483647
NaNRat == [n |-> 0, d |-> 0]

\* Number.isFinite
IsFinite(r) == r.d # 0

Rat(n, d) ==
    IF d = 0 THEN NaNRat
    ELSE LET g == GCD(Abs(n), d)
         IN  [n |-> n \div g, d |-> d \div g]

Zero == [n |-> 0, d |-> 1]

RSub(a, b) ==
    IF ~IsFinite(a) \/ ~IsFinite(b) THEN NaNRat
    ELSE LET l == (a.d \div GCD(a.d, b.d)) * b.d
         IN  Rat(a.n * (l \div a.d) - b.n * (l \div b.d), l)

RAdd(a, b) ==
    IF ~IsFinite(a) \/ ~IsFinite(b) THEN NaNRat
    ELSE LET l == (a.d \div GCD(a.d, b.d)) * b.d
         IN  Rat(a.n * (l \div a.d) + b.n * (l \div b.d), l)

RLess(a, b) ==
    IF ~IsFinite(a) \/ ~IsFinite(b) THEN FALSE
    ELSE LET l == (a.d \div GCD(a.d, b.d)) * b.d
         IN  a.n * (l \div a.d) < b.n * (l \div b.d)

RAbs(a) == [n |-> Abs(a.n), d |-> a.d]

\* Math.round: the nearest integer, halves towards +Infinity
MathRound(r) == (r.n \div r.d) + ((2 * (r.n % r.d) + r.d) \div (2 * r.d))

\* pct(n): Number.isFinite(n) ? Math.round(n * 100) / 100 : 0, as an integer
\* number of hundredths
pct(r) ==
    IF ~IsFinite(r) THEN 0
    ELSE 100 * (r.n \div r.d) + MathRound([n |-> 100 * (r.n % r.d), d |-> r.d])

\* nonneg(n): Math.max(1e-9, n || 0); NaN || 0 is 0
nonneg(n) == IF n > 0 THEN Rat(n, 1) ELSE Rat(1, 1000000000)

\* the divergence with its sign turned
divergenceFlipped(vel, price) == RSub(price, vel)

\* diffPct = vol24Pct - price24Pct, resp. volVelPct - priceChangePct
divergence(vel, price) == RSub(vel, price)

\* ((a - b) / nonneg(b)) * 100
PctChange(a, b) ==
    LET den == nonneg(b)
    IN  IF a = NaN \/ b = NaN THEN NaNRat
        ELSE Rat((a - b) * 100 * den.d, den.n)

-----------------------------------------------------------------------------
(* State *)

None == <<>>
Some(x) == <<x>>

ensureState ==
    [ last |-> None,
      daybuf |-> <<>>,
      lastMinuteBucket |-> 0,
      vol24Pct |-> Zero,
      price24Pct |-> Zero,
      diffPct |-> Zero,
      buf |-> <<>>,
      alert |-> [level |-> 0, lastAt |-> 0],
      digest |-> [lastSentAt |-> 0] ]

\* while (buf.length && buf[0].ts < cutoff) buf.shift()
RECURSIVE shiftOlder(_, _)
shiftOlder(s, cutoff) ==
    IF s # <<>> /\ Head(s).ts < cutoff THEN shiftOlder(Tail(s), cutoff) ELSE s

\* while (S.buf.length && ts - S.buf[0].ts > HORIZON_SEC) S.buf.shift()
\* left out: the whole buffer is kept
keepAll(buf, ts, horizon) == buf

\* while (S.buf.length && ts - S.buf[0].ts > HORIZON_SEC) S.buf.shift()
evict(buf, ts, horizon) == shiftOlder(buf, ts - horizon)

\* a long buffer that is never trimmed
trimDaybufNever(daybuf, ts) == daybuf

\* keepSec = DAYBUF_KEEP_HRS * 3600; cutoff = ts - keepSec;
\* while (S.daybuf.length && S.daybuf[0].ts < cutoff) S.daybuf.shift()
trimDaybuf(daybuf, ts) == shiftOlder(daybuf, ts - DAYBUF_KEEP_HRS * 3600)

\* a long buffer that takes every observation
pushMinuteSampleAlways(S, ts, vol24, price) ==
    [S EXCEPT !.lastMinuteBucket = ts \div DAYBUF_RES_SEC,
              !.daybuf = trimDaybuf(
                  Append(S.daybuf, [ts |-> ts, vol24 |-> vol24, price |-> price]),
                  ts)]

pushMinuteSample(S, ts, vol24, price) ==
    LET bucket == ts \div DAYBUF_RES_SEC
    IN  IF S.lastMinuteBucket = bucket
        THEN S
        ELSE [S EXCEPT !.lastMinuteBucket = bucket,
                       !.daybuf = trimDaybuf(
                           Append(S.daybuf, [ts |-> ts, vol24 |-> vol24, price |-> price]),
                           ts)]

\* the first sample found scanning forward: the oldest at or before the target
sampleAtLookbackOldest(S, ts) ==
    LET target == ts - LOOKBACK_HOURS * 3600
        hits == {i \in 1..Len(S.daybuf) : S.daybuf[i].ts <= target}
    IN  IF hits = {} THEN None
        ELSE Some(S.daybuf[CHOOSE i \in hits : \A j \in hits : i <= j])

\* the newest sample, however recent
sampleAtLookbackNewest(S, ts) ==
    IF S.daybuf = <<>> THEN None ELSE Some(S.daybuf[Len(S.daybuf)])

\* the latest sample taken at or before ts - LOOKBACK_HOURS, None if there is none
sampleAtLookback(S, ts) ==
    LET target == ts - LOOKBACK_HOURS * 3600
        hits == {i \in 1..Len(S.daybuf) : S.daybuf[i].ts <= target}
    IN  IF hits = {} THEN None
        ELSE Some(S.daybuf[CHOOSE i \in hits : \A j \in hits : j <= i])

\* the slope between the two newest entries
recentSlopeAdjacent(S) ==
    LET n == Len(S.buf)
    IN  IF n < 2 THEN Zero
        ELSE LET a == S.buf[n - 1]
                 b == S.buf[n]
                 d == RSub(b.diff, a.diff)
                 dt == Max(1, b.ts - a.ts)
             IN  Rat(d.n, d.d * dt)

\* recentSlope(S): percent per second over the last entries of S.buf
recentSlope(S) ==
    LET n == Len(S.buf)
    IN  IF n < 2 THEN Zero
        ELSE LET a == S.buf[Max(1, n - 2)]
                 b == S.buf[n]
                 d == RSub(b.diff, a.diff)
                 dt == Max(1, b.ts - a.ts)
             IN  Rat(d.n, d.d * dt)

-----------------------------------------------------------------------------
(* Alerts of the lookback variant *)

\* one step too many
stepsAboveBaseOffByOne(stepsAbove) == stepsAbove

\* stepsAbove - 1: how many steps the level lies above the base threshold
stepsAboveBase(stepsAbove) == stepsAbove - 1

\* a level without a sign
quantizeLevelUnsigned(diffPct) ==
    LET ad == RAbs(diffPct)
    IN  IF ad.n < ALERT_DIFF_THRESHOLD_PCT * ad.d THEN 0
        ELSE ALERT_DIFF_THRESHOLD_PCT
                 + ((ad.n - ALERT_DIFF_THRESHOLD_PCT * ad.d)
                        \div (ALERT_LEVEL_STEP_PCT * ad.d)) * ALERT_LEVEL_STEP_PCT

\* quantizeLevel(diffPct); diffPct is a fraction [n, d] of hundredths of a percent
quantizeLevel(diffPct) ==
    LET ad == RAbs(diffPct)
    IN  IF ad.n < ALERT_DIFF_THRESHOLD_PCT * ad.d THEN 0
        ELSE LET stepsAbove == ((ad.n - ALERT_DIFF_THRESHOLD_PCT * ad.d)
                                    \div (ALERT_LEVEL_STEP_PCT * ad.d)) + 1
                 level == ALERT_DIFF_THRESHOLD_PCT
                              + stepsAboveBase(stepsAbove) * ALERT_LEVEL_STEP_PCT
             IN  MathRound([n |-> level * Sign(diffPct.n), d |-> 1])

\* a stored level that is the rounded divergence itself
storedLevelRaw(newLevel, diffNow) == diffNow

\* a.level = newLevel: the level maybeAlert stores with a step notification
storedLevel(newLevel, diffNow) == newLevel

\* no cool-down at all
coolingDownNever(a, now) == FALSE

\* a cool-down that never ends
coolingDownForever(a, now) == TRUE

\* the cool-down gate of maybeAlert: TRUE when the call returns without alerting
coolingDown(a, now) == now - a.lastAt < ALERT_MIN_MS

\* bookkeeping that follows the level also while the cool-down runs
keptAlertUpdated(a, newLevel) == [a EXCEPT !.level = newLevel]

\* the alert state of a pair after a level change that the cool-down stops
keptAlert(a, newLevel) == a

\* no hysteresis gate
sameLevelNever(newLevel, prevLevel) == FALSE

\* if (newLevel === prevLevel) return;
sameLevel(newLevel, prevLevel) == newLevel = prevLevel

\* a disarm branch for positive levels only
disarmsPositiveOnly(newLevel, prevLevel) == newLevel = 0 /\ prevLevel > 0

\* if (newLevel === 0 && prevLevel !== 0): the disarm branch
disarms(newLevel, prevLevel) == newLevel = 0 /\ prevLevel # 0

\* the new level instead of the move
stepDeltaFromZero(newLevel, prevLevel) == MathRound([n |-> newLevel, d |-> 1])

\* delta = Math.round((newLevel - prevLevel) * 100) / 100
stepDelta(newLevel, prevLevel) == MathRound([n |-> newLevel - prevLevel, d |-> 1])

\* an alert that also empties the trend buffer
withAlertClearingBuf(S, a) == [S EXCEPT !.alert = a, !.buf = <<>>]

\* a.level = ...; a.lastAt = ...: the only fields of S that maybeAlert assigns
withAlert(S, a) == [S EXCEPT !.alert = a]

\* maybeAlert(pair), S.last set: the new state of the pair and the outbox
maybeAlert(S, pair, now, out) ==
    LET diffNow == pct(S.diffPct)
        newLevel == quantizeLevel(Rat(diffNow, 1))
        a == S.alert
        prevLevel == a.level
    IN  IF sameLevel(newLevel, prevLevel)
        THEN [S |-> S, sent |-> out]
        ELSE IF coolingDown(a, now)
        THEN [S |-> [S EXCEPT !.alert = keptAlert(a, newLevel)], sent |-> out]
        ELSE IF disarms(newLevel, prevLevel)
        THEN [S |-> withAlert(S, [level |-> 0, lastAt |-> now]),
              sent |-> Append(out,
                  [kind |-> "disarm", pair |-> pair, at |-> now,
                   positive |-> prevLevel > 0, diff |-> diffNow,
                   vol24Pct |-> pct(S.vol24Pct), price24Pct |-> pct(S.price24Pct)])]
        ELSE LET delta == stepDelta(newLevel, prevLevel)
                 rank == Min(5, ((Abs(newLevel) - ALERT_DIFF_THRESHOLD_PCT)
                                    \div ALERT_LEVEL_STEP_PCT) + 1)
                 slope == recentSlope(S)
                 perMin == pct(Rat(slope.n * 60, slope.d))
             IN  [S |-> withAlert(S, [level |-> storedLevel(newLevel, diffNow),
                                      lastAt |-> now]),
                  sent |-> Append(out,
                      [kind |-> "step", pair |-> pair, at |-> now,
                       dir |-> IF delta > 0 THEN "UP" ELSE "DOWN",
                       delta |-> Abs(delta), level |-> Abs(newLevel),
                       positive |-> newLevel > 0, rank |-> rank,
                       diff |-> diffNow, perMin |-> perMin,
                       vol24Pct |-> pct(S.vol24Pct), price24Pct |-> pct(S.price24Pct)])]

\* a warm-up that records a flat sample in the trend buffer
warmupStateSampled(S, obs) ==
    [S EXCEPT !.last = Some(obs),
              !.buf = Append(S.buf, [ts |-> obs.ts, diff |-> Zero])]

\* if (!ref) { S.last = { ts, vol24, price, avg24 }; return; }
warmupState(S, obs) == [S EXCEPT !.last = Some(obs)]

\* computeFromTicker up to its last statement, the call of maybeAlert: the
\* state of the pair at that point (at the early return, in warm-up)
beforeAlert(S0, ts, vol24, price, avg24) ==
    LET S == pushMinuteSample(S0, ts, vol24, price)
        ref == sampleAtLookback(S, ts)
        obs == [ts |-> ts, vol24 |-> vol24, price |-> price, avg24 |-> avg24]
    IN  IF ref = None
        THEN warmupState(S, obs)
        ELSE LET vol24Pct == PctChange(vol24, ref[1].vol24)
                 price24Pct == PctChange(price, ref[1].price)
                 diffPct == divergence(vol24Pct, price24Pct)
                 HORIZON_SEC == Max(RATE_WINDOW_SEC * 10, 600)
             IN  [S EXCEPT !.last = Some(obs),
                           !.vol24Pct = vol24Pct,
                           !.price24Pct = price24Pct,
                           !.diffPct = diffPct,
                           !.buf = evict(
                               Append(S.buf, [ts |-> ts, diff |-> diffPct]),
                               ts, HORIZON_SEC)]

computeFromTicker(S0, pair, ts, vol24, price, avg24, now, out) ==
    LET ref == sampleAtLookback(pushMinuteSample(S0, ts, vol24, price), ts)
        S1 == beforeAlert(S0, ts, vol24, price, avg24)
    IN  IF ref = None
        THEN [S |-> S1, sent |-> out]
        ELSE maybeAlert(S1, pair, now, out)

-----------------------------------------------------------------------------
(* Snapshot and ranking of the lookback variant *)

\* s[name] || 0
Field(s, name) == IF name \in DOMAIN s THEN s[name] ELSE 0

\* vol24Pct / Math.max(0.0001, |price24Pct|), the fields read by name
momentumScore(s) ==
    LET price == Abs(Field(s, "price24Pct"))
        vol == Field(s, "vol24Pct")
    IN  IF price * 100 >= 1 THEN Rat(vol, price) ELSE Rat(vol * 100, 1)

\* Number(x.toFixed(2)), in hundredths
toFixed2(r) ==
    Sign(r.n) * MathRound([n |-> 100 * Abs(r.n), d |-> r.d])

\* a guard that also skips the pairs whose metrics were never computed
hasMetrics(S) == S.last # None /\ S.buf # <<>>

\* whether currentSnapshot and rankAndDigest look at the pair
hasLast(S) == S.last # None

snapshotEntry(S) ==
    LET vol24Pct == pct(S.vol24Pct)
        price24Pct == pct(S.price24Pct)
        diffPct == pct(S.diffPct)
    IN  [ ts |-> S.last[1].ts,
          price |-> S.last[1].price,
          avg24 |-> S.last[1].avg24,
          vol24 |-> S.last[1].vol24,
          volVelPct |-> vol24Pct,
          priceChangePct |-> price24Pct,
          diffPct |-> diffPct,
          ratio |-> toFixed2(momentumScore(
                        [vol24Pct |-> vol24Pct, price24Pct |-> price24Pct])) ]

\* Array.prototype.sort with comparator (a, b) => score(b) - score(a): stable,
\* descending; rows are records with a field score
RECURSIVE sortDesc(_)
sortDesc(rows) ==
    IF rows = <<>> THEN <<>>
    ELSE LET n == Len(rows)
             x == rows[n]
             front == sortDesc(SubSeq(rows, 1, n - 1))
             \* x goes after every row whose score is not smaller than its own
             k == Cardinality({i \in 1..Len(front) : ~RLess(front[i].score, x.score)})
         IN  SubSeq(front, 1, k) \o <<x>> \o SubSeq(front, k + 1, Len(front))

slice(s, n) == SubSeq(s, 1, Min(n, Len(s)))

\* the pairs currentSnapshot lists, in WS_PAIRS order
snapshotKeys == SelectSeq(WS_PAIRS, LAMBDA p : hasLast(perPair[p]))

\* the snapshot that lists the pairs keys with their entries
snapshotOf(keys, entries) ==
    LET pairs == [p \in {keys[i] : i \in 1..Len(keys)} |-> entries[p]]
        scored == [i \in 1..Len(keys) |->
                     [pair |-> keys[i],
                      score |-> IF RANK_MODE = "ratio"
                                THEN momentumScore(pairs[keys[i]])
                                ELSE Rat(pairs[keys[i]].volVelPct, 100)]]
        sorted == sortDesc(scored)
        ranked == [i \in 1..Len(sorted) |-> sorted[i].pair]
    IN  [ ts |-> clock \div 1000,
          meta |-> [rankMode |-> RANK_MODE, subscribed |-> Len(WS_PAIRS),
                    lookbackHours |-> LOOKBACK_HOURS],
          pairs |-> pairs,
          ranked |-> ranked,
          top |-> slice(ranked, 5) ]

\* a snapshot that stores the rounded metrics it shows
afterSnapshotRounded(S) ==
    [S EXCEPT !.vol24Pct = Rat(pct(S.vol24Pct), 100),
              !.price24Pct = Rat(pct(S.price24Pct), 100),
              !.diffPct = Rat(pct(S.diffPct), 100)]

\* the state of a pair after currentSnapshot: S is read, no field is assigned
afterSnapshot(S) == S

\* a snapshot that lists every subscribed pair, observed or not
blankOrEntry(S) ==
    IF S.last = None
    THEN [ts |-> 0, price |-> 0, avg24 |-> 0, vol24 |-> 0, volVelPct |-> 0,
          priceChangePct |-> 0, diffPct |-> 0, ratio |-> 0]
    ELSE snapshotEntry(S)

currentSnapshotUnguarded ==
    snapshotOf(WS_PAIRS, [p \in Pairs |-> blankOrEntry(perPair[p])])

currentSnapshot ==
    snapshotOf(snapshotKeys,
               [p \in {q \in Pairs : hasLast(perPair[q])} |->
                   snapshotEntry(perPair[p])])

-----------------------------------------------------------------------------
(* 5 minute digest of the lookback variant *)

RECURSIVE sumDiff(_)
sumDiff(w) == IF w = <<>> THEN Zero ELSE RAdd(Head(w).diff, sumDiff(Tail(w)))

\* a window that one sample fills
tooFewEmpty(window) == Len(window) < 1

\* if (window.length < 2) continue
tooFew(window) == Len(window) < 2

\* the rows rankAndDigest collects, in WS_PAIRS order
digestRows ==
    LET now == clock \div 1000
        cutoff == now - 5 * 60
        window(p) == SelectSeq(perPair[p].buf, LAMBDA x : x.ts >= cutoff)
        avgDiff(p) == LET s == sumDiff(window(p))
                      IN  Rat(s.n, s.d * Len(window(p)))
        keys == SelectSeq(WS_PAIRS, LAMBDA p :
                    /\ hasLast(perPair[p])
                    /\ ~tooFew(window(p))
                    /\ ~RLess(RAbs(avgDiff(p)), Rat(DIGEST_MIN_ABS_DELTA_PCT, 100)))
    IN  [i \in 1..Len(keys) |->
            LET S == perPair[keys[i]]
                slope == recentSlope(S)
            IN  [ pair |-> keys[i],
                  avgDiff |-> avgDiff(keys[i]),
                  score |-> RAbs(avgDiff(keys[i])),
                  vol24Pct |-> pct(S.vol24Pct),
                  price24Pct |-> pct(S.price24Pct),
                  trendPerMin |-> pct(Rat(slope.n * 60, slope.d)) ]]

\* winners and losers ranked apart, each capped at n
rankRowsBySign(rows, n) ==
    slice(sortDesc(SelectSeq(rows, LAMBDA r : r.avgDiff.n >= 0)), n)
        \o slice(sortDesc(SelectSeq(rows, LAMBDA r : r.avgDiff.n < 0)), n)

\* rows.sort((a, b) => Math.abs(b.avgDiff) - Math.abs(a.avgDiff)); slice(0, n)
rankRows(rows, n) == slice(sortDesc(rows), n)

digestTop == rankRows(digestRows, DIGEST_TOP_N)

\* what one run of rankAndDigest lists: the members and the leader's average
digestSummary(top) ==
    [ members |-> {top[i].pair : i \in 1..Len(top)},
      leader |-> IF top = <<>> THEN Zero ELSE top[1].avgDiff ]

\* if (!top.length) return; otherwise the digest is posted
digestPosts(top) == top # <<>>

-----------------------------------------------------------------------------
(* Stepwise variant: short-window velocity, step alerts and reminders *)

seedState ==
    [ last |-> None,
      buf |-> <<>>,
      volVelPct |-> Zero,
      priceChangePct |-> Zero,
      diffPct |-> Zero,
      alert |-> [stepIndex |-> 0, lastTime |-> 0, lastDiff |-> 0, sign |-> 0] ]

stepIndexForDiff(diff) ==
    LET mag == Abs(diff)
    IN  IF mag < ALERT_DIFF_THRESHOLD_PCT THEN 0
        ELSE 1 + ((mag - ALERT_DIFF_THRESHOLD_PCT) \div ALERT_LEVEL_STEP_PCT)

\* maybeAlert(pair, _tsSec) of the stepwise variant
maybeAlertStepwise(S, pair, now, out) ==
    LET diff == pct(S.diffPct)
        sign == IF diff >= 0 THEN 1 ELSE -1
        step == stepIndexForDiff(diff)
        a == S.alert
        prevStep == a.stepIndex
        deltaSteps == step - prevStep
        crossedOut == step = 0 /\ prevStep > 0
        enoughTime == (now - a.lastTime) >= ALERT_MIN_MS
        reason == IF deltaSteps > 0 THEN "UP"
                  ELSE IF deltaSteps < 0 /\ step > 0 THEN "DOWN"
                  ELSE IF crossedOut THEN "BACK BELOW"
                  ELSE IF step > 0 /\ enoughTime THEN "REMINDER"
                  ELSE ""
        slope == recentSlope(S)
    IN  IF reason = ""
        THEN [S |-> S, sent |-> out]
        ELSE [S |-> [S EXCEPT !.alert = [stepIndex |-> step, lastTime |-> now,
                                         lastDiff |-> diff, sign |-> sign]],
              sent |-> Append(out,
                  [kind |-> reason, pair |-> pair, at |-> now,
                   moved |-> Abs(deltaSteps) * ALERT_LEVEL_STEP_PCT,
                   step |-> step, diff |-> diff,
                   positive |-> sign >= 0,
                   perMin |-> pct(Rat(slope.n * 60, slope.d)),
                   volVelPct |-> pct(S.volVelPct),
                   priceChangePct |-> pct(S.priceChangePct)])]

\* the oldest buffered sample, whatever its age
olderSampleOldest(buf, ts, vol24) ==
    IF buf # <<>> THEN buf[1] ELSE [ts |-> ts - 1, vol24 |-> vol24]

\* the reference sample of computeVelocity: the newest buffered sample at least
\* RATE_WINDOW_SEC old, else the oldest one, else a synthetic sample one
\* second back that carries the current volume
olderSample(buf, ts, vol24) ==
    LET hits == {i \in 1..Len(buf) : ts - buf[i].ts >= RATE_WINDOW_SEC}
    IN  IF hits # {} THEN buf[CHOOSE i \in hits : \A j \in hits : j <= i]
        ELSE IF buf # <<>> THEN buf[1]
        ELSE [ts |-> ts - 1, vol24 |-> vol24]

\* the relative change, not scaled to an hour
velocityPctUnscaled(dv, v0, dt) == Rat(dv * v0.d * 100, v0.n)

\* ((dv / v0) * (3600 / dt)) * 100: percent per hour
velocityPct(dv, v0, dt) == Rat(dv * v0.d * 360000, v0.n * dt)

computeVelocity(S0, pair, ts, vol24, price, avg24, now, out) ==
    LET HORIZON_SEC == Max(RATE_WINDOW_SEC * 6, 300)
        trimmed == evict(S0.buf, ts, HORIZON_SEC)
        older == olderSample(trimmed, ts, vol24)
        dt == Max(1, ts - older.ts)
        v0 == nonneg(older.vol24)
        dv == vol24 - older.vol24
        volVelPct == velocityPct(dv, v0, dt)
        priceChangePct == PctChange(price, avg24)
        diffPct == divergence(volVelPct, priceChangePct)
        S1 == [S0 EXCEPT !.last = Some([ts |-> ts, vol24 |-> vol24,
                                        price |-> price, avg24 |-> avg24]),
                         !.volVelPct = volVelPct,
                         !.priceChangePct = priceChangePct,
                         !.diffPct = diffPct,
                         !.buf = Append(trimmed, [ts |-> ts, vol24 |-> vol24,
                                                  diff |-> diffPct])]
    IN  maybeAlertStepwise(S1, pair, now, out)

-----------------------------------------------------------------------------
(* Actions *)

Init ==
    /\ variant \in {"lookback", "stepwise"}
    /\ clock = StartMs
    /\ perPair = [p \in Pairs |-> IF variant = "lookback" THEN ensureState ELSE seedState]
    /\ sent = <<>>
    /\ ev = [op |-> "boot", pair |-> "", n |-> 0, ticks |-> 0]
    /\ lastDigest = None
    /\ digestAt = StartMs
    /\ delivery = <<>>
    /\ state = <<>>
    /\ latestResults = <<>>
    /\ call = [f |-> "", arg |-> Zero, done |-> TRUE, out |-> 0]

\* time passes between two events
Tick(d) ==
    /\ ev.ticks < MaxTicks
    /\ clock' = clock + d
    /\ ev' = [ev EXCEPT !.op = "tick", !.pair = "", !.ticks = ev.ticks + 1]
    /\ UNCHANGED <<variant, perPair, sent, lastDigest, digestAt, call, delivery, state,
                   latestResults>>

\* one alert state for all pairs
storePairSharedAlert(pp, p, S) ==
    [q \in DOMAIN pp |-> IF q = p THEN S ELSE [pp[q] EXCEPT !.alert = S.alert]]

\* a store that a reader meets after S.last was assigned and before the rest
storePairTorn(pp, p, S) == [pp EXCEPT ![p] = [pp[p] EXCEPT !.last = S.last]]

\* const S = ensureState(pair): the handler writes through S, the object
\* held under perPair[pair]
storePair(pp, p, S) == [pp EXCEPT ![p] = S]

\* ws.on('message') with a ticker payload for pair p (lookback variant)
onMessage(p, t) ==
    /\ variant = "lookback"
    /\ ev.n < MaxObs
    /\ LET ts == clock \div 1000
           r == computeFromTicker(perPair[p], p, ts, t.vol24, t.price, t.avg24, clock, sent)
       IN  /\ perPair' = storePair(perPair, p, r.S)
           /\ sent' = r.sent
    /\ ev' = [ev EXCEPT !.op = "ticker", !.pair = p, !.n = ev.n + 1]
    /\ UNCHANGED <<variant, clock, lastDigest, digestAt, call, delivery, state,
                   latestResults>>

\* ws.on('message') with a ticker payload for pair p (stepwise variant)
onMessageStepwise(p, t) ==
    /\ variant = "stepwise"
    /\ ev.n < MaxObs
    /\ LET ts == clock \div 1000
           r == computeVelocity(perPair[p], p, ts, t.vol24, t.price, t.avg24, clock, sent)
       IN  /\ perPair' = [perPair EXCEPT ![p] = r.S]
           /\ sent' = r.sent
    /\ ev' = [ev EXCEPT !.op = "ticker", !.pair = p, !.n = ev.n + 1]
    /\ UNCHANGED <<variant, clock, lastDigest, digestAt, call, delivery, state,
                   latestResults>>

\* GET /api/snapshot and the 2 second broadcast: builds the snapshot, changes
\* no state of the engine
snapshot ==
    /\ variant = "lookback"
    /\ perPair' = [p \in Pairs |-> afterSnapshot(perPair[p])]
    /\ ev' = [ev EXCEPT !.op = "snapshot", !.pair = ""]
    /\ UNCHANGED <<variant, clock, sent, lastDigest, digestAt, call, delivery, state,
                   latestResults>>

\* the number of digests posted so far
digestsSent == Cardinality({i \in 1..Len(sent) : sent[i].kind = "digest"})

\* the period of the digest timer, in ms
digestEveryMs == Max(60, DIGEST_EVERY_SEC) * 1000

\* setInterval(rankAndDigest, ...): a run comes no sooner than one period
\* after the timer was set or last fired
rankAndDigest ==
    /\ variant = "lookback"
    /\ digestsSent < MaxDigests
    /\ clock - digestAt >= digestEveryMs
    /\ digestAt' = clock
    /\ LET top == digestTop
       IN  /\ sent' = IF digestPosts(top)
                      THEN Append(sent, [kind |-> "digest", pair |-> "", at |-> clock,
                                         rows |-> top])
                      ELSE sent
           /\ lastDigest' = Some(digestSummary(top))
    /\ ev' = [ev EXCEPT !.op = "digest", !.pair = ""]
    /\ UNCHANGED <<variant, clock, perPair, call, delivery, state,
                   latestResults>>

Next ==
    \/ \E d \in Steps : Tick(d)
    \/ \E p \in Pairs, t \in Tickers : onMessage(p, t)
    \/ \E p \in Pairs, t \in Tickers : onMessageStepwise(p, t)
    \/ snapshot
    \/ rankAndDigest

Spec == Init /\ [][Next]_vars

-----------------------------------------------------------------------------
(* The alert path on its own. maybeAlert and computeVelocity read and write
   perPair[pair] only, so the messages of one pair are enough to exercise
   every alert decision of both variants. *)

AlertPair == WS_PAIRS[1]

NextAlerts ==
    \/ \E d \in Steps : Tick(d)
    \/ \E t \in Tickers : onMessage(AlertPair, t)
    \/ \E t \in Tickers : onMessageStepwise(AlertPair, t)

SpecAlerts == Init /\ [][NextAlerts]_vars

-----------------------------------------------------------------------------
(* The lookback variant with its two timers: snapshot and digest over both
   pairs, with a flat ticker and one that moves volume and price apart. *)

DigestTickers == {t \in Tickers : t.vol24 = t.price \/ t.price # t.avg24}

InitDigest == Init /\ variant = "lookback"

NextDigest ==
    \/ \E d \in Steps : Tick(d)
    \/ \E p \in Pairs, t \in DigestTickers : onMessage(p, t)
    \/ snapshot
    \/ rankAndDigest

SpecDigest == InitDigest /\ [][NextDigest]_vars

-----------------------------------------------------------------------------
(* The ingestion boundary of the lookback variant: the message handler with
   the payloads as the feed sends them. A field of the payload is a number
   (the text of one), Some(x), or is missing. *)

Missing == None

\* parseFloat(x || '0')
parseFloatOr0(x) == IF x = Missing THEN 0 ELSE x[1]

\* parseTickerMessage(msg): null without a pair name, else the three numbers
parseTickerMessage(msg) ==
    IF msg.pair = "" THEN None
    ELSE Some([pair |-> msg.pair,
               lastPrice |-> parseFloatOr0(msg.c),
               vol24 |-> parseFloatOr0(msg.v),
               avg24 |-> parseFloatOr0(msg.p)])

\* what the socket delivers: a heartbeat, an array without a pair name, and
\* tickers of a feed that has lost the price field
RawMessages ==
    { [event |-> "heartbeat", pair |-> "", c |-> Missing, v |-> Missing, p |-> Missing],
      [event |-> "", pair |-> "", c |-> Some(100), v |-> Some(100), p |-> Some(100)] }
    \cup { [event |-> "", pair |-> q, c |-> Missing, v |-> Some(x), p |-> Some(100)] :
              q \in Pairs, x \in {100, 106} }

\* a ticker for a pair whose price or volume field is missing
Malformed(m) == m.event = "" /\ m.pair # "" /\ Missing \in {m.c, m.v}

\* ws.on('message'): events are dropped, then parseTickerMessage, then
\* computeFromTicker
onRawMessage(m) ==
    /\ variant = "lookback"
    /\ ev.n < MaxObs
    /\ LET t == parseTickerMessage(m)
       IN  IF m.event # "" \/ t = None
           THEN /\ UNCHANGED <<perPair, sent>>
                /\ ev' = [ev EXCEPT !.op = "dropped", !.pair = "", !.n = ev.n + 1]
           ELSE LET ts == clock \div 1000
                    r == computeFromTicker(perPair[t[1].pair], t[1].pair, ts,
                                           t[1].vol24, t[1].lastPrice, t[1].avg24,
                                           clock, sent)
                IN  /\ perPair' = [perPair EXCEPT ![t[1].pair] = r.S]
                    /\ sent' = r.sent
                    /\ ev' = [ev EXCEPT !.op = "ticker", !.pair = t[1].pair,
                                        !.n = ev.n + 1]
    /\ UNCHANGED <<variant, clock, lastDigest, digestAt, call, delivery, state,
                   latestResults>>

NextIngest ==
    \/ \E d \in Steps : Tick(d)
    \/ \E m \in RawMessages : onRawMessage(m)

SpecIngest == InitDigest /\ [][NextIngest]_vars

\* tickers of one pair whose volume field is a number or a text parseFloat
\* cannot read
FeedMessages ==
    { [event |-> "", pair |-> AlertPair, c |-> Some(100), v |-> Some(x), p |-> Some(100)] :
          x \in {100, 106, NaN} }

NextFeed ==
    \/ \E d \in Steps : Tick(d)
    \/ \E m \in FeedMessages : onRawMessage(m)

SpecFeed == InitDigest /\ [][NextFeed]_vars

-----------------------------------------------------------------------------
(* The message handler of the lookback variant over both pairs, without the
   timers. *)

NextPairs ==
    \/ \E d \in Steps : Tick(d)
    \/ \E p \in Pairs, t \in DigestTickers : onMessage(p, t)

SpecPairs == InitDigest /\ [][NextPairs]_vars

-----------------------------------------------------------------------------
(* Delivery to Slack. slack() is async and is called without await: the
   caller goes on at once, and the post ends later, one way or another. *)

\* disabled: no SLACK_WEBHOOK_URL, slack() returns at once; failed: axios.post
\* rejects and the catch logs the error
Outcomes == {"delivered", "failed", "disabled"}

\* a delivery whose failure takes the alert back
afterDeliveryRollback(S, outcome) ==
    IF outcome = "failed" THEN [S EXCEPT !.alert = [level |-> 0, lastAt |-> 0]] ELSE S

\* the pair state once a call of slack() has ended: slack() has no access to it
afterDelivery(S, outcome) == S

\* the oldest call of slack() that has not ended yet ends with outcome o
slackSettles(o) ==
    /\ Len(delivery) < Len(sent)
    /\ delivery' = Append(delivery, o)
    /\ perPair' = [p \in Pairs |->
                      IF p = sent[Len(delivery) + 1].pair
                      THEN afterDelivery(perPair[p], o) ELSE perPair[p]]
    /\ ev' = [ev EXCEPT !.op = "slack", !.pair = sent[Len(delivery) + 1].pair]
    /\ UNCHANGED <<variant, clock, sent, lastDigest, digestAt, call, state,
                   latestResults>>

NextDelivery ==
    \/ \E d \in Steps : Tick(d)
    \/ \E t \in Tickers : onMessage(AlertPair, t)
    \/ \E o \in Outcomes : slackSettles(o)

SpecDelivery == InitDigest /\ [][NextDelivery]_vars

-----------------------------------------------------------------------------
(* quantizeLevel on its own: one call per behaviour, any argument *)

DiffInputs == {Rat(k, 4) : k \in (-4 * MaxDiff)..(4 * MaxDiff)}

InitQuantize ==
    /\ variant = "lookback"
    /\ clock = StartMs
    /\ perPair = [p \in Pairs |-> ensureState]
    /\ sent = <<>>
    /\ ev = [op |-> "boot", pair |-> "", n |-> 0, ticks |-> 0]
    /\ lastDigest = None
    /\ digestAt = StartMs
    /\ delivery = <<>>
    /\ state = <<>>
    /\ latestResults = <<>>
    /\ call \in {[f |-> "quantizeLevel", arg |-> x, done |-> FALSE, out |-> 0] :
                    x \in DiffInputs}

applyQuantizeLevel ==
    /\ ~call.done
    /\ call' = [call EXCEPT !.done = TRUE, !.out = quantizeLevel(call.arg)]
    /\ UNCHANGED <<variant, clock, perPair, sent, ev, lastDigest, digestAt, delivery, state,
                   latestResults>>

NextQuantize == applyQuantizeLevel

SpecQuantize == InitQuantize /\ [][NextQuantize]_vars

-----------------------------------------------------------------------------
(* utils.js: the two definitions of each helper, one call per behaviour *)

MaxVol == 11
MaxPct == 4
MaxHalfHours == 2

Volumes == {10 * k : k \in (-MaxVol)..MaxVol}
Pcts == {10 * k : k \in (-MaxPct)..MaxPct}
Intervals == {1800000 * k : k \in (-1)..MaxHalfHours}

\* n / d for a divisor of either sign
RatDiv(n, d) == IF d < 0 THEN Rat(-n, -d) ELSE Rat(n, d)

\* the change measured against the current volume
calcVolumePctChangeOfCurrent(prevVolume, currentVolume) ==
    IF prevVolume = None \/ currentVolume = 0 THEN None
    ELSE Some(RatDiv((currentVolume - prevVolume[1]) * 100, currentVolume))

\* first definition: prevVolume === null || prevVolume <= 0
calcVolumePctChange(prevVolume, currentVolume) ==
    IF prevVolume = None THEN None
    ELSE IF prevVolume[1] <= 0 THEN None
    ELSE Some(RatDiv((currentVolume - prevVolume[1]) * 100, prevVolume[1]))

\* second definition: prevVolume === null || prevVolume === 0
calcVolumePctChangeV2(prevVolume, currentVolume) ==
    IF prevVolume = None THEN None
    ELSE IF prevVolume[1] = 0 THEN None
    ELSE Some(RatDiv((currentVolume - prevVolume[1]) * 100, prevVolume[1]))

\* the rate per millisecond instead of per hour
calcVolumeVelocityPerMs(prevPct, currentPct, intervalMs) ==
    IF prevPct = None \/ currentPct = None THEN None
    ELSE IF intervalMs <= 0 THEN None
    ELSE Some(RatDiv(currentPct[1] - prevPct[1], intervalMs))

\* first definition: ... || intervalMs <= 0
calcVolumeVelocity(prevPct, currentPct, intervalMs) ==
    IF prevPct = None \/ currentPct = None THEN None
    ELSE IF intervalMs <= 0 THEN None
    ELSE Some(RatDiv((currentPct[1] - prevPct[1]) * 3600000, intervalMs))

\* second definition: ... || !intervalMs
calcVolumeVelocityV2(prevPct, currentPct, intervalMs) ==
    IF prevPct = None \/ currentPct = None THEN None
    ELSE IF intervalMs = 0 THEN None
    ELSE Some(RatDiv((currentPct[1] - prevPct[1]) * 3600000, intervalMs))

PctChangeCalls ==
    {[f |-> g, arg |-> [prevVolume |-> a, currentVolume |-> b],
      done |-> FALSE, out |-> None] :
        g \in {"calcVolumePctChange", "calcVolumePctChangeV2"},
        a \in {None} \cup {Some(x) : x \in Volumes},
        b \in Volumes}

VelocityCalls ==
    {[f |-> g, arg |-> [prevPct |-> a, currentPct |-> b, intervalMs |-> i],
      done |-> FALSE, out |-> None] :
        g \in {"calcVolumeVelocity", "calcVolumeVelocityV2"},
        a \in {None} \cup {Some(x) : x \in Pcts},
        b \in {None} \cup {Some(x) : x \in Pcts},
        i \in Intervals}

InitUtils ==
    /\ variant = "lookback"
    /\ clock = StartMs
    /\ perPair = [p \in Pairs |-> ensureState]
    /\ sent = <<>>
    /\ ev = [op |-> "boot", pair |-> "", n |-> 0, ticks |-> 0]
    /\ lastDigest = None
    /\ digestAt = StartMs
    /\ delivery = <<>>
    /\ state = <<>>
    /\ latestResults = <<>>
    /\ call \in PctChangeCalls \cup VelocityCalls

Returns(f, out) ==
    /\ ~call.done
    /\ call.f = f
    /\ call' = [call EXCEPT !.done = TRUE, !.out = out]
    /\ UNCHANGED <<variant, clock, perPair, sent, ev, lastDigest, digestAt, delivery, state,
                   latestResults>>

applyCalcVolumePctChange ==
    /\ call.f = "calcVolumePctChange"
    /\ Returns("calcVolumePctChange",
               calcVolumePctChange(call.arg.prevVolume, call.arg.currentVolume))

applyCalcVolumePctChangeV2 ==
    /\ call.f = "calcVolumePctChangeV2"
    /\ Returns("calcVolumePctChangeV2",
               calcVolumePctChangeV2(call.arg.prevVolume, call.arg.currentVolume))

applyCalcVolumeVelocity ==
    /\ call.f = "calcVolumeVelocity"
    /\ Returns("calcVolumeVelocity",
               calcVolumeVelocity(call.arg.prevPct, call.arg.currentPct,
                                  call.arg.intervalMs))

applyCalcVolumeVelocityV2 ==
    /\ call.f = "calcVolumeVelocityV2"
    /\ Returns("calcVolumeVelocityV2",
               calcVolumeVelocityV2(call.arg.prevPct, call.arg.currentPct,
                                    call.arg.intervalMs))

NextUtils ==
    \/ applyCalcVolumePctChange
    \/ applyCalcVolumePctChangeV2
    \/ applyCalcVolumeVelocity
    \/ applyCalcVolumeVelocityV2

SpecUtils == InitUtils /\ [][NextUtils]_vars

-----------------------------------------------------------------------------
(* The polling monitor: setInterval(check, interval) over the REST ticker *)

MaxPolls == 2

\* KRAKEN_PAIRS, in the order of Object.entries(tickers)
pairs == <<"XXBTZUSD", "SOLUSD">>
PollPairs == {pairs[i] : i \in 1..Len(pairs)}

\* POLL_INTERVAL_MS
interval == 30000

\* the divergence that posts an alert, percent
POLL_ALERT_PCT == 10

\* ticker.v[1], ticker.c[0], ticker.o of one pair
PollTickers ==
    {[v |-> 100, c |-> 100, o |-> 100],
     [v |-> 110, c |-> 100, o |-> 100],
     [v |-> 110, c |-> 105, o |-> 100],
     [v |-> 120, c |-> 105, o |-> 100],
     [v |-> 0,   c |-> 100, o |-> 100],
     [v |-> 100, c |-> 100, o |-> 0]}

\* calcPriceChangePct: the first definition throws on openPrice <= 0, the
\* second returns 0 on openPrice === 0
calcPriceChangePct(openPrice, lastPrice) ==
    IF variant = "polling"
    THEN IF openPrice <= 0 THEN [threw |-> TRUE, value |-> Zero]
         ELSE [threw |-> FALSE,
               value |-> RatDiv((lastPrice - openPrice) * 100, openPrice)]
    ELSE IF openPrice = 0 THEN [threw |-> FALSE, value |-> Zero]
         ELSE [threw |-> FALSE,
               value |-> RatDiv((lastPrice - openPrice) * 100, openPrice)]

\* calcVolumePctChange(prev?.volume ?? null, volume24h) with the definition
\* of utils.js in use
volumePctChangeOf(prev, volume24h) ==
    LET prevVolume == IF prev = None THEN None ELSE Some(prev[1].volume)
    IN  IF variant = "polling" THEN calcVolumePctChange(prevVolume, volume24h)
        ELSE calcVolumePctChangeV2(prevVolume, volume24h)

\* diff = volumePctChange === null ? null : volumePctChange - priceChangePct
diffOf(volumePctChange, priceChangePct) ==
    IF volumePctChange = None THEN None
    ELSE Some(RSub(volumePctChange[1], priceChangePct))

\* diff !== null && Math.abs(diff) >= 10
alerts(diff) ==
    diff # None /\ ~RLess(RAbs(diff[1]), Rat(POLL_ALERT_PCT, 1))

\* a velocity that takes a missing previous change for 0
volumeVelocityFromZero(prev, volumePctChange) ==
    IF prev = None \/ volumePctChange = None THEN None
    ELSE LET d == RSub(volumePctChange[1],
                       IF prev[1].pct = None THEN Zero ELSE prev[1].pct[1])
             g == GCD(3600000, interval)
         IN  Some(Rat(d.n * (3600000 \div g), d.d * (interval \div g)))

\* prev && volumePctChange !== null
\*   ? calcVolumeVelocity(prev.pct, volumePctChange, interval) : null
\* (interval is positive, so both definitions of utils.js agree)
volumeVelocityOf(prev, volumePctChange) ==
    IF prev = None \/ volumePctChange = None THEN None
    ELSE IF prev[1].pct = None THEN None
    ELSE LET d == RSub(volumePctChange[1], prev[1].pct[1])
             g == GCD(3600000, interval)
         IN  Some(Rat(d.n * (3600000 \div g), d.d * (interval \div g)))

\* the for loop of check() from the i-th entry on: st is state, results the
\* rows pushed so far, posts the calls of sendSlack so far, ends how they
\* ended; the loop is left by the first exception (calcPriceChangePct throws,
\* the awaited post rejects)
RECURSIVE checkLoop(_, _, _, _, _, _, _, _)
checkLoop(i, tickers, outcome, n, st, results, posts, ends) ==
    IF i > Len(pairs)
    THEN [state |-> st, results |-> results, posts |-> posts, ends |-> ends,
          threw |-> FALSE]
    ELSE
        LET pair == pairs[i]
            ticker == tickers[pair]
            priceChangePct == calcPriceChangePct(ticker.o, ticker.c)
            prev == st[pair]
            volumePctChange == volumePctChangeOf(prev, ticker.v)
            volumeVelocity == volumeVelocityOf(prev, volumePctChange)
            st1 == [st EXCEPT ![pair] = Some([volume |-> ticker.v,
                                              pct |-> volumePctChange])]
            diff == diffOf(volumePctChange, priceChangePct.value)
            results1 == Append(results,
                               [pair |-> pair, volumePctChange |-> volumePctChange,
                                priceChangePct |-> priceChangePct.value,
                                diff |-> diff, volumeVelocity |-> volumeVelocity])
            post == [pair |-> pair, n |-> n, diff |-> diff[1]]
        IN  IF priceChangePct.threw
            THEN [state |-> st, results |-> results, posts |-> posts, ends |-> ends,
                  threw |-> TRUE]
            ELSE IF ~alerts(diff)
            THEN checkLoop(i + 1, tickers, outcome, n, st1, results1, posts, ends)
            ELSE IF outcome[pair] = "rejected"
            THEN [state |-> st1, results |-> results1, posts |-> Append(posts, post),
                  ends |-> Append(ends, "rejected"), threw |-> TRUE]
            ELSE checkLoop(i + 1, tickers, outcome, n, st1, results1,
                           Append(posts, post), Append(ends, "delivered"))

\* results.filter(r => r.volumeVelocity !== null)
\*        .sort((a, b) => b.volumeVelocity - a.volumeVelocity): a stable sort,
\* greatest velocity first
RECURSIVE sortByVelocity(_)
sortByVelocity(rows) ==
    IF rows = <<>> THEN <<>>
    ELSE LET best == CHOOSE i \in 1..Len(rows) :
                         /\ \A j \in 1..Len(rows) :
                               ~RLess(rows[i].volumeVelocity[1],
                                      rows[j].volumeVelocity[1])
                         /\ \A j \in 1..(i - 1) :
                               RLess(rows[j].volumeVelocity[1],
                                     rows[i].volumeVelocity[1])
         IN  <<rows[best]>> \o
             sortByVelocity(SubSeq(rows, 1, best - 1) \o
                            SubSeq(rows, best + 1, Len(rows)))

ranked(results) ==
    sortByVelocity(SelectSeq(results, LAMBDA r : r.volumeVelocity # None))

InitPoll ==
    /\ variant \in {"polling", "pollingV2"}
    /\ clock = StartMs
    /\ perPair = [p \in Pairs |-> ensureState]
    /\ sent = <<>>
    /\ ev = [op |-> "boot", n |-> 0, tickers |-> <<>>, results |-> <<>>,
             broadcast |-> None, logged |-> <<>>]
    /\ lastDigest = None
    /\ digestAt = StartMs
    /\ delivery = <<>>
    /\ state = [p \in PollPairs |-> None]
    /\ latestResults = <<>>
    /\ call = [f |-> "", arg |-> Zero, done |-> TRUE, out |-> 0]

\* one run of check(): fetchTickers resolves with tickers, and the post of
\* an alert for pair p, if one is made, ends as outcome[p].  After the loop
\* the results are cached, broadcast, ranked, and the top and second are
\* logged; an exception in the loop is caught past all that.  (The last
\* iteration of the monitor, lines 1333-1367, is this one without the cache
\* and the broadcast.)
check(tickers, outcome) ==
    LET r == checkLoop(1, tickers, outcome, ev.n + 1, state, <<>>, sent, delivery)
    IN  /\ state' = r.state
        /\ sent' = r.posts
        /\ delivery' = r.ends
        /\ latestResults' = IF r.threw THEN latestResults ELSE r.results
        /\ ev' = [op |-> "check", n |-> ev.n + 1, tickers |-> tickers,
                  results |-> r.results,
                  broadcast |-> IF r.threw THEN None ELSE Some(r.results),
                  logged |-> IF r.threw THEN <<>>
                             ELSE SubSeq(ranked(r.results), 1,
                                         Min(2, Len(ranked(r.results))))]
        /\ UNCHANGED <<variant, clock, perPair, lastDigest, digestAt, call>>

\* one run of check() in which fetchTickers throws: the catch logs the error
checkFetchFails ==
    /\ ev' = [op |-> "fetch-error", n |-> ev.n + 1, tickers |-> <<>>,
              results |-> <<>>, broadcast |-> None, logged |-> <<>>]
    /\ UNCHANGED <<variant, clock, perPair, sent, lastDigest, digestAt, call,
                   delivery, state, latestResults>>

NextPoll ==
    \/ /\ ev.n < MaxPolls
       /\ \E tickers \in [PollPairs -> PollTickers] :
            \E outcome \in [PollPairs -> {"delivered", "rejected"}] :
              check(tickers, outcome)
    \/ /\ ev.n < MaxPolls
       /\ checkFetchFails

SpecPoll == InitPoll /\ [][NextPoll]_vars

-----------------------------------------------------------------------------
(* The polling monitor over more cycles: the baseline of the velocity *)

MaxCycles == 3

\* volumes that rise, stay and vanish, at an unchanged price
BaselineTickers ==
    {[v |-> 100, c |-> 100, o |-> 100],
     [v |-> 110, c |-> 100, o |-> 100],
     [v |-> 0,   c |-> 100, o |-> 100]}

\* every post of a cycle is delivered, or every post is rejected
BaselineOutcomes ==
    {[p \in PollPairs |-> "delivered"], [p \in PollPairs |-> "rejected"]}

NextBaseline ==
    \/ /\ ev.n < MaxCycles
       /\ \E tickers \in [PollPairs -> BaselineTickers] :
            \E outcome \in BaselineOutcomes :
              check(tickers, outcome)
    \/ /\ ev.n < MaxCycles
       /\ checkFetchFails

SpecBaseline == InitPoll /\ [][NextBaseline]_vars

-----------------------------------------------------------------------------
(* The ranking step of rankAndDigest on its own: one call per behaviour *)

MaxRows == 3
MaxTopN == 2

\* average divergences, percent
AvgDiffs == {Rat(-6, 1), Rat(-4, 1), Rat(4, 1), Rat(6, 1)}

RowPair(i) == <<"P", i>>

\* the rows the loop of rankAndDigest can collect from MaxRows pairs: some
\* pairs are skipped, the others follow in WS_PAIRS order
RECURSIVE RowLists(_)
RowLists(i) ==
    IF i > MaxRows THEN {<<>>}
    ELSE LET rest == RowLists(i + 1)
         IN  rest \cup
             {<<[pair |-> RowPair(i), avgDiff |-> a, score |-> RAbs(a)]>> \o r :
                 a \in AvgDiffs, r \in rest}

InitRank ==
    /\ variant = "lookback"
    /\ clock = StartMs
    /\ perPair = [p \in Pairs |-> ensureState]
    /\ sent = <<>>
    /\ ev = [op |-> "boot", pair |-> "", n |-> 0, ticks |-> 0]
    /\ lastDigest = None
    /\ digestAt = StartMs
    /\ delivery = <<>>
    /\ state = <<>>
    /\ latestResults = <<>>
    /\ call \in {[f |-> "rankRows", arg |-> [rows |-> r, n |-> n],
                  done |-> FALSE, out |-> <<>>] :
                    r \in RowLists(1), n \in 1..MaxTopN}

applyRankRows ==
    /\ ~call.done
    /\ call.f = "rankRows"
    /\ call' = [call EXCEPT !.done = TRUE,
                            !.out = rankRows(call.arg.rows, call.arg.n)]
    /\ UNCHANGED <<variant, clock, perPair, sent, ev, lastDigest, digestAt,
                   delivery, state, latestResults>>

NextRank == applyRankRows

SpecRank == InitRank /\ [][NextRank]_vars

-----------------------------------------------------------------------------
(* The cool-down of the lookback variant under a feed that goes on: time
   passes and tickers of the pair keep arriving for as long as a level change
   stopped by the cool-down is outstanding, whatever was handled before. *)

\* the metrics of p quantize to a level other than the stored one
Pending(p) ==
    /\ perPair[p].last # None
    /\ quantizeLevel(Rat(pct(perPair[p].diffPct), 1)) # perPair[p].alert.level

\* the cool-down of p has not elapsed
CooldownLeft(p) == clock - perPair[p].alert.lastAt < ALERT_MIN_MS

\* time passes; past MaxTicks only while a stopped change waits for the
\* cool-down
TickLive(d) ==
    /\ \/ ev.ticks < MaxTicks
       \/ d < ALERT_MIN_MS /\ Pending(AlertPair) /\ CooldownLeft(AlertPair)
    /\ clock' = clock + d
    /\ ev' = [ev EXCEPT !.op = "tick", !.pair = "", !.ticks = Min(ev.ticks + 1, MaxTicks)]
    /\ UNCHANGED <<variant, perPair, sent, lastDigest, digestAt, call, delivery, state,
                   latestResults>>

\* ws.on('message') with a ticker payload for pair p; past MaxObs only one
\* message per instant, while a stopped change is outstanding
onMessageLive(p, t) ==
    /\ variant = "lookback"
    /\ \/ ev.n < MaxObs
       \/ Pending(p) /\ ev.op = "tick"
    /\ LET ts == clock \div 1000
           r == computeFromTicker(perPair[p], p, ts, t.vol24, t.price, t.avg24, clock, sent)
       IN  /\ perPair' = storePair(perPair, p, r.S)
           /\ sent' = r.sent
    /\ ev' = [ev EXCEPT !.op = "ticker", !.pair = p, !.n = Min(ev.n + 1, MaxObs)]
    /\ UNCHANGED <<variant, clock, lastDigest, digestAt, call, delivery, state,
                   latestResults>>

NextLive ==
    \/ \E d \in Steps : TickLive(d)
    \/ \E t \in DigestTickers : onMessageLive(AlertPair, t)

\* a ticker of the pair can be handled: the enabling condition of
\* onMessageLive, which changes ev whenever it runs
MessageDue == ev.n < MaxObs \/ (Pending(AlertPair) /\ ev.op = "tick")

\* the clock advances, and the socket goes on delivering tickers: no ticker
\* stays due for ever (weak fairness of the handler, stated through its
\* enabling condition)
SpecLive ==
    /\ InitDigest
    /\ [][NextLive]_vars
    /\ WF_vars(\E d \in Steps : TickLive(d))
    /\ []<>~MessageDue

-----------------------------------------------------------------------------
(* The alert path of one pair under a steady volume and a price that moves a
   tenth up or down: the divergence changes its sign and keeps its size. *)

SignTickers ==
    { [vol24 |-> 1000, price |-> 100, avg24 |-> 100],
      [vol24 |-> 1000, price |-> 110, avg24 |-> 100],
      [vol24 |-> 1000, price |->  90, avg24 |-> 100] }

NextSigns ==
    \/ \E d \in Steps : Tick(d)
    \/ \E t \in SignTickers : onMessage(AlertPair, t)
    \/ \E t \in SignTickers : onMessageStepwise(AlertPair, t)

SpecSigns == Init /\ [][NextSigns]_vars

-----------------------------------------------------------------------------
(* The velocity of the second iteration, with volumes a tenth apart and
   observations a minute and an hour apart. *)

VelocityTickers ==
    { [vol24 |-> 1000, price |-> 100, avg24 |-> 100],
      [vol24 |-> 1000, price |-> 110, avg24 |-> 100],
      [vol24 |-> 1100, price |-> 110, avg24 |-> 100] }

VelocitySteps == {RATE_WINDOW_SEC * 1000, 3600 * 1000}

InitVelocity == Init /\ variant = "stepwise"

NextVelocity ==
    \/ \E d \in VelocitySteps : Tick(d)
    \/ \E t \in VelocityTickers : onMessageStepwise(AlertPair, t)

SpecVelocity == InitVelocity /\ [][NextVelocity]_vars

-----------------------------------------------------------------------------
(* recentSlope on its own: one call per behaviour, any trend buffer *)

MaxSamples == 4

\* divergences of the samples, percent
SlopeDiffs == {Rat(-3, 2), Zero, Rat(4, 1)}

\* seconds between two samples that follow each other; 0 when two messages
\* arrive within one second
SlopeGaps == {0, 40}

\* the trend buffers of up to MaxSamples entries whose first entry would be
\* taken at ts, oldest first
RECURSIVE SlopeBufs(_, _)
SlopeBufs(k, ts) ==
    IF k = 0 THEN {<<>>}
    ELSE {<<>>} \cup
         {<<[ts |-> ts, diff |-> x]>> \o r :
             x \in SlopeDiffs,
             r \in UNION {SlopeBufs(k - 1, ts + g) : g \in SlopeGaps}}

InitSlope ==
    /\ variant = "lookback"
    /\ clock = StartMs
    /\ perPair = [p \in Pairs |-> ensureState]
    /\ sent = <<>>
    /\ ev = [op |-> "boot", pair |-> "", n |-> 0, ticks |-> 0]
    /\ lastDigest = None
    /\ digestAt = StartMs
    /\ delivery = <<>>
    /\ state = <<>>
    /\ latestResults = <<>>
    /\ call \in {[f |-> "recentSlope", arg |-> [buf |-> b],
                  done |-> FALSE, out |-> Zero] :
                    b \in SlopeBufs(MaxSamples, StartMs \div 1000)}

applyRecentSlope ==
    /\ ~call.done
    /\ call.f = "recentSlope"
    /\ call' = [call EXCEPT !.done = TRUE, !.out = recentSlope(call.arg)]
    /\ UNCHANGED <<variant, clock, perPair, sent, ev, lastDigest, digestAt,
                   delivery, state, latestResults>>

NextSlope == applyRecentSlope

SpecSlope == InitSlope /\ [][NextSlope]_vars

-----------------------------------------------------------------------------
(* First iteration of the server: the sample is pushed before the velocity is
   computed, and alerts escalate by level *)

\* perPair[p] = { last: null, buf: [], ..., alert: {} }: the alert object has
\* no fields, and `S.alert ||= {...}` keeps it, an object being truthy
seedStateV1 ==
    [ last |-> None,
      buf |-> <<>>,
      volVelPct |-> Zero,
      priceChangePct |-> Zero,
      diffPct |-> Zero,
      alert |-> [lastTime |-> None, lastLevel |-> None, lastDiff |-> None] ]

levelForDiff(diff) ==
    IF diff < ALERT_DIFF_THRESHOLD_PCT THEN 0
    ELSE 1 + ((diff - ALERT_DIFF_THRESHOLD_PCT) \div ALERT_LEVEL_STEP_PCT)

\* maybeAlert(pair, tsSec) of the first iteration; a comparison with an
\* undefined field (now - undefined >= ..., lvl > undefined) is false
maybeAlertV1(S, pair, now, out) ==
    LET diff == pct(S.diffPct)
        lvl == levelForDiff(diff)
        a == S.alert
        enoughTime == a.lastTime # None /\ (now - a.lastTime[1]) >= ALERT_MIN_MS
        higher == a.lastLevel # None /\ lvl > a.lastLevel[1]
    IN  IF lvl = 0 \/ ~(higher \/ enoughTime)
        THEN [S |-> S, sent |-> out]
        ELSE [S |-> [S EXCEPT !.alert = [lastTime |-> Some(now),
                                         lastLevel |-> Some(lvl),
                                         lastDiff |-> Some(diff)]],
              sent |-> Append(out, [kind |-> "LEVEL", pair |-> pair, at |-> now,
                                    level |-> lvl, diff |-> diff])]

\* let older = S.buf[0]; for (i = length - 1 .. 0) if (ts - buf[i].ts >=
\* RATE_WINDOW_SEC) { older = buf[i]; break; }   (buf holds the new sample)
olderSampleV1(buf, ts) ==
    LET hits == {i \in 1..Len(buf) : ts - buf[i].ts >= RATE_WINDOW_SEC}
    IN  IF hits # {} THEN buf[CHOOSE i \in hits : \A j \in hits : j <= i]
        ELSE buf[1]

computeVelocityV1(S0, pair, ts, vol24, price, avg24, now, out) ==
    LET HORIZON_SEC == Max(RATE_WINDOW_SEC * 6, 300)
        pushed == Append(S0.buf, [ts |-> ts, vol24 |-> vol24, diff |-> S0.diffPct])
        buf == evict(pushed, ts, HORIZON_SEC)
        older == olderSampleV1(buf, ts)
        dt == Max(1, ts - older.ts)
        v0 == nonneg(older.vol24)
        dv == vol24 - older.vol24
        volVelPct == Rat(dv * v0.d * 360000, v0.n * dt)
        priceChangePct == PctChange(price, avg24)
        diffPct == divergence(volVelPct, priceChangePct)
        S1 == [S0 EXCEPT !.last = Some([ts |-> ts, vol24 |-> vol24,
                                        price |-> price, avg24 |-> avg24]),
                         !.volVelPct = volVelPct,
                         !.priceChangePct = priceChangePct,
                         !.diffPct = diffPct,
                         !.buf = buf]
    IN  maybeAlertV1(S1, pair, now, out)

\* ws.on('message') with a ticker payload for pair p (first iteration)
onMessageV1(p, t) ==
    /\ variant = "escalation"
    /\ ev.n < MaxObs
    /\ LET ts == clock \div 1000
           r == computeVelocityV1(perPair[p], p, ts, t.vol24, t.price, t.avg24, clock, sent)
       IN  /\ perPair' = [perPair EXCEPT ![p] = r.S]
           /\ sent' = r.sent
    /\ ev' = [ev EXCEPT !.op = "ticker", !.pair = p, !.n = ev.n + 1]
    /\ UNCHANGED <<variant, clock, lastDigest, digestAt, call, delivery, state,
                   latestResults>>

-----------------------------------------------------------------------------
(* The buffers of one pair, under observations seconds, minutes and a day
   apart, in the three iterations of the server *)

BufferSteps ==
    {10 * 1000, 200 * 1000, 700 * 1000,
     LOOKBACK_HOURS * 3600 * 1000, DAYBUF_KEEP_HRS * 3600 * 1000}

BufferTickers == {t \in Tickers : t.vol24 = t.price \/ t.price # t.avg24}

InitBuffers ==
    /\ variant \in {"lookback", "stepwise", "escalation"}
    /\ clock = StartMs
    /\ perPair = [p \in Pairs |->
                     IF variant = "lookback" THEN ensureState
                     ELSE IF variant = "stepwise" THEN seedState
                     ELSE seedStateV1]
    /\ sent = <<>>
    /\ ev = [op |-> "boot", pair |-> "", n |-> 0, ticks |-> 0]
    /\ lastDigest = None
    /\ digestAt = StartMs
    /\ delivery = <<>>
    /\ state = <<>>
    /\ latestResults = <<>>
    /\ call = [f |-> "", arg |-> Zero, done |-> TRUE, out |-> 0]

NextBuffers ==
    \/ \E d \in BufferSteps : Tick(d)
    \/ \E t \in BufferTickers : onMessage(AlertPair, t)
    \/ \E t \in BufferTickers : onMessageStepwise(AlertPair, t)
    \/ \E t \in BufferTickers : onMessageV1(AlertPair, t)

SpecBuffers == InitBuffers /\ [][NextBuffers]_vars

-----------------------------------------------------------------------------
(* Properties *)

Lookback == variant = "lookback"

\* 0 or +-(base threshold + k * step), k >= 0
OnLattice(level) ==
    \/ level = 0
    \/ /\ Abs(level) >= ALERT_DIFF_THRESHOLD_PCT
       /\ (Abs(level) - ALERT_DIFF_THRESHOLD_PCT) % ALERT_LEVEL_STEP_PCT = 0

\* C5: in every reachable state of the lookback variant the stored alert level
\* of every pair is 0 or +-(base threshold + k * step) for an integer k >= 0.
C5_LevelOnLattice ==
    Lookback => \A p \in Pairs : OnLattice(perPair[p].alert.level)

-----------------------------------------------------------------------------
(* The alert state machine of the lookback variant, step by step *)

Last(q) == q[Len(q)]

\* this step handled a ticker message for p that found a lookback reference,
\* computed the metrics and called maybeAlert
Updated(p) ==
    /\ ev'.op = "ticker"
    /\ ev'.pair = p
    /\ perPair'[p].buf # perPair[p].buf

\* the level maybeAlert quantizes in this step
NewLevel(p) == quantizeLevel(Rat(pct(perPair'[p].diffPct), 1))

\* the cool-down has not elapsed when maybeAlert runs in this step
Cooling(p) == clock' - perPair[p].alert.lastAt < ALERT_MIN_MS

\* the state was reached by a ticker message for p that called maybeAlert
JustUpdated(p) ==
    /\ ev.op = "ticker"
    /\ ev.pair = p
    /\ perPair[p].buf # <<>>
    /\ Last(perPair[p].buf).ts = clock \div 1000
    /\ perPair[p].last = Some([ts |-> clock \div 1000,
                               vol24 |-> perPair[p].last[1].vol24,
                               price |-> perPair[p].last[1].price,
                               avg24 |-> perPair[p].last[1].avg24])

\* the notifications about pair p, oldest first
AlertsOf(p) == SelectSeq(sent, LAMBDA x : x.pair = p)

\* C1: in the lookback variant an update whose quantized level equals the
\* stored level sends nothing and leaves the alert state alone, whether or
\* not the cool-down has elapsed; and every notification leaves the announced
\* level stored, so divergences that all quantize to one level alert at most
\* once.
C1_SameLevelSilent ==
    [][Lookback =>
        \A p \in Pairs : Updated(p) =>
            /\ NewLevel(p) = perPair[p].alert.level =>
                   /\ sent' = sent
                   /\ perPair'[p].alert = perPair[p].alert
            /\ sent' # sent => perPair'[p].alert.level = NewLevel(p)]_vars

\* a second, different divergence on the announced level arrived after the
\* cool-down and the pair still has the one alert
C1_Witness ==
    /\ Lookback
    /\ \E p \in Pairs :
          /\ JustUpdated(p)
          /\ Len(perPair[p].buf) >= 2
          /\ LET b == perPair[p].buf
                 x == b[Len(b) - 1].diff
                 y == b[Len(b)].diff
             IN  /\ x # y
                 /\ quantizeLevel(Rat(pct(x), 1)) = perPair[p].alert.level
                 /\ quantizeLevel(Rat(pct(y), 1)) = perPair[p].alert.level
          /\ perPair[p].alert.level # 0
          /\ clock - perPair[p].alert.lastAt >= ALERT_MIN_MS
          /\ Len(AlertsOf(p)) = 1

\* any two notifications about one pair are at least the cool-down apart
Spaced ==
    \A i, j \in 1..Len(sent) :
        (i < j /\ sent[i].pair # "" /\ sent[i].pair = sent[j].pair)
            => sent[j].at - sent[i].at >= ALERT_MIN_MS

\* C2 as stated: in every variant any two notifications about the same pair
\* are at least ALERT_MIN_INTERVAL_SEC apart.
C2_SpacedEverywhere == Spaced

\* C2, amended: in the lookback variant any two notifications about the same
\* pair are at least ALERT_MIN_INTERVAL_SEC apart.
C2_SpacedLookback == Lookback => Spaced

\* a pair of the lookback variant was notified about twice
C2_Witness ==
    /\ Lookback
    /\ \E p \in Pairs : Len(AlertsOf(p)) >= 2

\* C3 as stated: after every call of maybeAlert the stored level is the
\* quantized level of the latest rounded divergence.
C3_LevelFollowsLatest ==
    Lookback =>
        \A p \in Pairs :
            perPair[p].alert.level = quantizeLevel(Rat(pct(perPair[p].diffPct), 1))

\* C3, amended: a level change that arrives before the cool-down has elapsed
\* sends nothing and leaves the stored level and last-fired time as they
\* were; after a call that the cool-down does not stop, the stored level is
\* the quantized level of the latest rounded divergence.
C3_CooldownKeepsLevel ==
    [][Lookback =>
        \A p \in Pairs : Updated(p) =>
            IF NewLevel(p) # perPair[p].alert.level /\ Cooling(p)
            THEN /\ sent' = sent
                 /\ perPair'[p].alert = perPair[p].alert
            ELSE perPair'[p].alert.level = NewLevel(p)]_vars

\* a level change has just been stopped by the cool-down: the stored level is
\* not the level of the latest divergence
C3_Witness ==
    /\ Lookback
    /\ \E p \in Pairs :
          /\ JustUpdated(p)
          /\ perPair[p].alert.level # quantizeLevel(Rat(pct(perPair[p].diffPct), 1))
          /\ clock - perPair[p].alert.lastAt < ALERT_MIN_MS

\* C4: quantizeLevel(diff) is 0 when |diff| is below the base threshold and
\* otherwise sign(diff) * (base + floor((|diff| - base) / step) * step), a
\* value with two decimals; 7.8 gives 7.50.
C4_QuantizeFormula ==
    (call.f = "quantizeLevel" /\ call.done) =>
        LET mag == RAbs(call.arg)
            base == ALERT_DIFF_THRESHOLD_PCT
            step == ALERT_LEVEL_STEP_PCT
        IN  /\ call.out =
                  IF mag.n < base * mag.d THEN 0
                  ELSE Sign(call.arg.n)
                         * (base + ((mag.n - base * mag.d) \div (step * mag.d)) * step)
            /\ call.arg = Rat(780, 1) => call.out = 750

\* quantizeLevel has been applied to -7.8025 and returned -7.50
C4_Witness ==
    /\ call.f = "quantizeLevel"
    /\ call.done
    /\ call.arg = Rat(-3121, 4)
    /\ call.out = -750

\* a pair stores a negative level beyond the base threshold (k >= 1)
C5_Witness ==
    /\ Lookback
    /\ \E p \in Pairs : perPair[p].alert.level < -ALERT_DIFF_THRESHOLD_PCT

\* C6: when the new level is 0, the stored level is not 0 and the cool-down
\* has elapsed, maybeAlert sends exactly one disarm notification and stores
\* level 0, whatever the sign of the previous level.
C6_Disarm ==
    [][Lookback =>
        \A p \in Pairs :
            (/\ Updated(p)
             /\ NewLevel(p) = 0
             /\ perPair[p].alert.level # 0
             /\ ~Cooling(p))
            => /\ Len(sent') = Len(sent) + 1
               /\ SubSeq(sent', 1, Len(sent)) = sent
               /\ Last(sent').kind = "disarm"
               /\ Last(sent').pair = p
               /\ Last(sent').positive = (perPair[p].alert.level > 0)
               /\ perPair'[p].alert = [level |-> 0, lastAt |-> clock']]_vars

\* a pair has just been disarmed from a negative level
C6_Witness ==
    /\ Lookback
    /\ \E p \in Pairs :
          /\ JustUpdated(p)
          /\ sent # <<>>
          /\ Last(sent).kind = "disarm"
          /\ Last(sent).pair = p
          /\ Last(sent).at = clock
          /\ ~Last(sent).positive
          /\ perPair[p].alert.level = 0

\* C7: when the level moves to a different nonzero value and the cool-down
\* has elapsed, maybeAlert sends exactly one step notification: UP when the
\* new signed level is above the stored one and DOWN otherwise, with step
\* size |new - stored| and level |new|; it stores the new level and the
\* current time.
C7_Step ==
    [][Lookback =>
        \A p \in Pairs :
            (/\ Updated(p)
             /\ NewLevel(p) # perPair[p].alert.level
             /\ NewLevel(p) # 0
             /\ ~Cooling(p))
            => /\ Len(sent') = Len(sent) + 1
               /\ SubSeq(sent', 1, Len(sent)) = sent
               /\ Last(sent').kind = "step"
               /\ Last(sent').pair = p
               /\ Last(sent').dir = IF NewLevel(p) > perPair[p].alert.level
                                    THEN "UP" ELSE "DOWN"
               /\ Last(sent').delta = Abs(NewLevel(p) - perPair[p].alert.level)
               /\ Last(sent').level = Abs(NewLevel(p))
               /\ perPair'[p].alert = [level |-> NewLevel(p), lastAt |-> clock']]_vars

\* a pair has just stepped down from one nonzero level to another
C7_Witness ==
    /\ Lookback
    /\ \E p \in Pairs :
          /\ JustUpdated(p)
          /\ sent # <<>>
          /\ Last(sent).kind = "step"
          /\ Last(sent).pair = p
          /\ Last(sent).at = clock
          /\ Last(sent).dir = "DOWN"
          /\ Last(sent).delta # Last(sent).level
          /\ perPair[p].alert.level > 0

-----------------------------------------------------------------------------
(* Digest, snapshot and ranking of the lookback variant *)

\* this step is a run of rankAndDigest
DigestRun == ev'.op = "digest"

\* C8: a digest run that lists the same members as the previous run, with
\* the leader's average unchanged, sends nothing. rankAndDigest keeps no
\* record of the previous digest, so the second run posts the same rows.
C8_RepeatSuppressed ==
    [][(/\ Lookback
        /\ DigestRun
        /\ lastDigest # None
        /\ lastDigest' = lastDigest
        /\ lastDigest[1].members # {})
       => sent' = sent]_vars

Range(q) == {q[i] : i \in 1..Len(q)}

\* C9: a pair without any observation (last is null) is in no snapshot entry,
\* not in the ranked list and not among the digest rows.
C9_UnobservedExcluded ==
    Lookback =>
        \A p \in Pairs :
            perPair[p].last = None =>
                /\ p \notin DOMAIN currentSnapshot.pairs
                /\ p \notin Range(currentSnapshot.ranked)
                /\ p \notin Range(currentSnapshot.top)
                /\ \A i \in 1..Len(digestRows) : digestRows[i].pair # p

\* a snapshot is built while one pair is listed and another has no observation
C9_Witness ==
    /\ Lookback
    /\ ev.op = "snapshot"
    /\ currentSnapshot.top # <<>>
    /\ \E p \in Pairs : perPair[p].last = None

\* the pair has received observations, none of them old enough to serve as
\* the lookback reference now
InWarmup(p) ==
    /\ perPair[p].last # None
    /\ sampleAtLookback(perPair[p], clock \div 1000) = None

\* C10 as stated: a pair in warm-up has no entry in the ranked top list.
C10_WarmupUnranked ==
    Lookback =>
        \A p \in Pairs : InWarmup(p) => p \notin Range(currentSnapshot.top)

\* C10, amended: a pair in warm-up is ranked: it has a snapshot entry and an
\* entry in the ranked list (in top when at most five pairs are listed), and
\* as long as its metrics were never computed its entry shows 0 for all three
\* percentages and for the ratio.
C10_WarmupRanked ==
    Lookback =>
        \A p \in Pairs : InWarmup(p) =>
            /\ p \in DOMAIN currentSnapshot.pairs
            /\ p \in Range(currentSnapshot.ranked)
            /\ Len(currentSnapshot.ranked) <= 5 => p \in Range(currentSnapshot.top)
            /\ perPair[p].buf = <<>> =>
                   LET e == currentSnapshot.pairs[p]
                   IN  /\ e.volVelPct = 0
                       /\ e.priceChangePct = 0
                       /\ e.diffPct = 0
                       /\ e.ratio = 0

\* a snapshot is built while a pair is in warm-up
C10_Witness ==
    /\ Lookback
    /\ ev.op = "snapshot"
    /\ \E p \in Pairs : InWarmup(p) /\ perPair[p].buf = <<>>

-----------------------------------------------------------------------------
(* Warm-up of the lookback variant *)

\* the metrics of a pair
Metrics(S) == <<S.vol24Pct, S.price24Pct, S.diffPct>>

\* this step handled a ticker message for p
Ticker(p) == ev'.op = "ticker" /\ ev'.pair = p /\ ev'.n = ev.n + 1

\* before this step the long buffer of p held a sample at least
\* LOOKBACK_HOURS older than the observation the step handles
HeldLookback(p) ==
    \E i \in 1..Len(perPair[p].daybuf) :
        (clock' \div 1000) - perPair[p].daybuf[i].ts >= LOOKBACK_HOURS * 3600

\* C11: in the lookback variant a pair's vol24Pct, price24Pct and diffPct
\* stay at their initial values and no alert is emitted for it until an
\* observation arrives whose timestamp is at least LOOKBACK_HOURS * 3600
\* seconds after the timestamp of a sample already in the pair's long buffer:
\* an observation without such a sample changes neither metrics, short
\* buffer, alert state nor the notifications, and a pair whose short buffer
\* is still empty has the initial metrics and no alert.
C11_WarmupKeepsMetrics ==
    /\ [](Lookback =>
            \A p \in Pairs : perPair[p].buf = <<>> =>
                /\ Metrics(perPair[p]) = <<Zero, Zero, Zero>>
                /\ perPair[p].alert = [level |-> 0, lastAt |-> 0]
                /\ AlertsOf(p) = <<>>)
    /\ [][Lookback =>
            \A p \in Pairs : (Ticker(p) /\ ~HeldLookback(p)) =>
                /\ Metrics(perPair'[p]) = Metrics(perPair[p])
                /\ perPair'[p].buf = perPair[p].buf
                /\ perPair'[p].alert = perPair[p].alert
                /\ sent' = sent]_vars

\* a pair with minutes of history whose volume has moved is still in warm-up
C11_Witness ==
    /\ Lookback
    /\ \E p \in Pairs :
          /\ ev.op = "ticker" /\ ev.pair = p
          /\ Len(perPair[p].daybuf) >= 3
          /\ Last(perPair[p].daybuf).ts - perPair[p].daybuf[1].ts >= 300
          /\ Last(perPair[p].daybuf).vol24 # perPair[p].daybuf[1].vol24
          /\ perPair[p].last[1].ts = clock \div 1000
          /\ perPair[p].buf = <<>>
          /\ Metrics(perPair[p]) = <<Zero, Zero, Zero>>
          /\ AlertsOf(p) = <<>>

-----------------------------------------------------------------------------
(* Ranking *)

\* velocityPct / max(0.0001, |priceChangePct|) of a snapshot entry
entryScore(e) ==
    LET price == Abs(e.priceChangePct)
    IN  IF price * 100 >= 1 THEN Rat(e.volVelPct, price)
        ELSE Rat(e.volVelPct * 100, 1)

\* the listed pairs by descending entryScore, equal scores in listing order
rankedByScore(snap, keys) ==
    LET rows == [i \in 1..Len(keys) |->
                    [pair |-> keys[i], score |-> entryScore(snap.pairs[keys[i]])]]
        sorted == sortDesc(rows)
    IN  [i \in 1..Len(sorted) |-> sorted[i].pair]

\* C12: in ratio rank mode the ranked list of the lookback variant's
\* currentSnapshot orders the pairs that have an observation by descending
\* velocityPct / max(0.0001, |priceChangePct|), equal scores kept in pair
\* iteration order.
C12_RankedByRatio ==
    (Lookback /\ RANK_MODE = "ratio") =>
        currentSnapshot.ranked = rankedByScore(currentSnapshot, snapshotKeys)

-----------------------------------------------------------------------------
(* What the readers of the pair state leave alone *)

\* this step is a run of currentSnapshot
SnapshotRun == ev'.op = "snapshot"

\* C13: building a snapshot leaves every pair's state unchanged: last
\* observation, buffers, metrics and alert state are the same before and
\* after the call (and nothing is sent).
C13_SnapshotReadOnly ==
    [][SnapshotRun => (perPair' = perPair /\ sent' = sent)]_vars

\* a snapshot was built while a pair had metrics that are not round numbers
\* and a stored alert level
C13_Witness ==
    /\ ev.op = "snapshot"
    /\ \E p \in Pairs :
          /\ perPair[p].buf # <<>>
          /\ perPair[p].alert.level # 0
          /\ Rat(pct(perPair[p].diffPct), 100) # perPair[p].diffPct
    /\ currentSnapshot.top # <<>>

\* C14: maybeAlert and rankAndDigest never change a pair's last observation,
\* long buffer, short buffer or metrics: after a ticker message the pair is
\* as computeFromTicker left it when it called maybeAlert, but for the alert
\* sub-state, and no other pair has changed; a run of rankAndDigest changes
\* at most the digest sub-state of a pair.
C14_AlertAndDigestFrame ==
    [][Lookback =>
        /\ \A p \in Pairs : Ticker(p) =>
              LET o == perPair'[p].last[1]
                  S1 == beforeAlert(perPair[p], o.ts, o.vol24, o.price, o.avg24)
              IN  /\ perPair'[p] = [S1 EXCEPT !.alert = perPair'[p].alert]
                  /\ \A q \in Pairs \ {p} : perPair'[q] = perPair[q]
        /\ DigestRun =>
              \A p \in Pairs :
                  perPair'[p] = [perPair[p] EXCEPT !.digest = perPair'[p].digest]]_vars

\* maybeAlert has stored an alert for a pair with a trend buffer, and a run
\* of rankAndDigest has just posted that pair
C14_Witness ==
    /\ Lookback
    /\ ev.op = "digest"
    /\ sent # <<>>
    /\ Last(sent).kind = "digest"
    /\ Last(sent).at = clock
    /\ \E p \in Pairs :
          /\ perPair[p].alert.level # 0
          /\ perPair[p].alert.lastAt > 0
          /\ Len(perPair[p].buf) >= 2
          /\ \E i \in 1..Len(Last(sent).rows) : Last(sent).rows[i].pair = p

-----------------------------------------------------------------------------
(* The stored divergence *)

\* the stored velocity and price change of a pair, by variant
Velocity(S) == IF Lookback THEN S.vol24Pct ELSE S.volVelPct
PriceChange(S) == IF Lookback THEN S.price24Pct ELSE S.priceChangePct

\* C15: in every reachable state of every pair the stored divergence equals
\* the stored velocity minus the stored price change (diffPct = volVelPct -
\* priceChangePct, resp. vol24Pct - price24Pct).
C15_DivergenceIsDifference ==
    \A p \in Pairs :
        perPair[p].diffPct = RSub(Velocity(perPair[p]), PriceChange(perPair[p]))

\* a pair whose velocity, price change and divergence are all different from 0
C15_Witness ==
    \E p \in Pairs :
        /\ ev.op = "ticker" /\ ev.pair = p
        /\ Velocity(perPair[p]) # Zero
        /\ PriceChange(perPair[p]) # Zero
        /\ perPair[p].diffPct # Zero
        /\ perPair[p].diffPct # Velocity(perPair[p])

-----------------------------------------------------------------------------
(* Malformed observations *)

\* C16: a ticker message whose price or volume field is missing is discarded
\* at the ingestion boundary: it changes no pair's buffers, last observation
\* or metrics (and sends nothing).
C16_MalformedDiscarded ==
    [][(\E m \in RawMessages : Malformed(m) /\ onRawMessage(m))
          => (perPair' = perPair /\ sent' = sent)]_vars

-----------------------------------------------------------------------------
(* Duplicate observations *)

\* this step handled, for p, the observation p already had as its last one
Duplicate(p) ==
    /\ Ticker(p)
    /\ perPair[p].last # None
    /\ perPair'[p].last = perPair[p].last

\* C17: processing the same observation for a pair twice (identical
\* timestamp and values) leaves that pair's state exactly as processing it
\* once: buffers, metrics, alert state and the emitted notifications are
\* unchanged by the duplicate (lookback variant).
C17_DuplicateIdempotent ==
    [][Lookback =>
        \A p \in Pairs : Duplicate(p) => (perPair' = perPair /\ sent' = sent)]_vars

-----------------------------------------------------------------------------
(* Delivery failures *)

\* this step is the end of a call of slack()
Settles == ev'.op = "slack" /\ Len(delivery') = Len(delivery) + 1

\* C18: the alert state a pair has after maybeAlert decides to notify (stored
\* level and last-fired time) is committed at the decision and is the same
\* whether the delivery later succeeds, fails or is disabled: the end of a
\* delivery changes no pair state and no notification.
C18_DeliveryLeavesState ==
    [][Lookback =>
        /\ \A p \in Pairs : (Ticker(p) /\ sent' # sent) =>
              /\ perPair'[p].alert.lastAt = clock
              /\ perPair'[p].alert.level = NewLevel(p)
        /\ Settles => (perPair' = perPair /\ sent' = sent)]_vars

\* the delivery of a step alert has failed and the pair still has the level
\* and time of that alert
C18_Witness ==
    /\ Lookback
    /\ ev.op = "slack"
    /\ delivery # <<>>
    /\ Last(delivery) = "failed"
    /\ LET x == sent[Len(delivery)]
       IN  /\ x.kind = "step"
           /\ perPair[x.pair].alert.lastAt = x.at
           /\ perPair[x.pair].alert.level # 0

\* the call of f has returned
Returned(f) == call.f = f /\ call.done

\* (cur - prev) / prev * 100
PctChangeOf(prev, cur) == RatDiv((cur - prev) * 100, prev)

\* C19 (as stated): calcVolumePctChange(prev, cur) returns null when prev is
\* null or zero, and otherwise (cur - prev) / prev * 100, for every prev and
\* cur.
C19_NullOnlyWithoutBaseline ==
    Returned("calcVolumePctChange") =>
        LET prev == call.arg.prevVolume
            cur == call.arg.currentVolume
        IN  call.out = IF prev = None \/ prev = Some(0) THEN None
                       ELSE Some(PctChangeOf(prev[1], cur))

\* C19: calcVolumePctChange(prev, cur) returns null when prev is null, zero
\* or negative, and otherwise (cur - prev) / prev * 100; the second
\* definition of the function returns null only when prev is null or zero.
C19_NullWithoutPositiveBaseline ==
    /\ Returned("calcVolumePctChange") =>
           LET prev == call.arg.prevVolume
               cur == call.arg.currentVolume
           IN  call.out = IF prev = None THEN None
                          ELSE IF prev[1] <= 0 THEN None
                          ELSE Some(PctChangeOf(prev[1], cur))
    /\ Returned("calcVolumePctChangeV2") =>
           LET prev == call.arg.prevVolume
               cur == call.arg.currentVolume
           IN  call.out = IF prev = None \/ prev = Some(0) THEN None
                          ELSE Some(PctChangeOf(prev[1], cur))

\* calcVolumePctChange(-100, 110) has returned null
C19_Witness ==
    /\ Returned("calcVolumePctChange")
    /\ call.arg.prevVolume = Some(-100)
    /\ call.arg.currentVolume = 110
    /\ call.out = None

\* delta / (ms / 3600000)
PerHour(delta, ms) == RatDiv(delta * 3600000, ms)

\* C20: calcVolumeVelocity(prevPct, curPct, intervalMs) returns null when
\* prevPct or curPct is null or the interval is not positive, and otherwise
\* (curPct - prevPct) / (intervalMs / 3600000), the change per hour.
C20_VelocityPerHour ==
    Returned("calcVolumeVelocity") =>
        LET prev == call.arg.prevPct
            cur == call.arg.currentPct
            ms == call.arg.intervalMs
        IN  /\ (prev = None \/ cur = None \/ ms <= 0) => call.out = None
            /\ (prev # None /\ cur # None /\ ms > 0) =>
                   call.out = Some(PerHour(cur[1] - prev[1], ms))
            /\ (prev = Some(10) /\ cur = Some(40) /\ ms = 1800000) =>
                   call.out = Some(Rat(60, 1))

\* calcVolumeVelocity(10, 40, 1800000) has returned 60 per hour
C20_Witness ==
    /\ Returned("calcVolumeVelocity")
    /\ call.arg = [prevPct |-> Some(10), currentPct |-> Some(40), intervalMs |-> 1800000]
    /\ call.out = Some(Rat(60, 1))

\* check() has just run on fetched tickers
CheckRun == ev'.op = "check" /\ ev'.n = ev.n + 1

\* the run of check() that just ended called sendSlack for pair p
Posted(p) ==
    \E i \in (Len(sent) + 1)..Len(sent') : sent'[i].pair = p /\ sent'[i].n = ev'.n

\* the divergence of pair p in the run that just ended, from the baseline the
\* run started with: volumePctChange - priceChangePct, None when undefined
PollDivergence(p) ==
    LET t == ev'.tickers[p]
    IN  IF state[p] = None THEN None
        ELSE IF state[p][1].volume <= 0 THEN None
        ELSE Some(RSub(RatDiv((t.v - state[p][1].volume) * 100, state[p][1].volume),
                       RatDiv((t.c - t.o) * 100, t.o)))

\* C21: in the polling monitor, check() posts a Slack alert for a pair in a
\* poll cycle if and only if the pair's divergence is defined (a positive
\* previous volume exists) and |volumePctChange - priceChangePct| >= 10; on a
\* pair's first poll no alert is posted.  (Stated for the cycles whose
\* open prices are all positive, where priceChangePct is defined.)
C21_AlertIffDivergent ==
    [][(CheckRun /\ \A q \in PollPairs : ev'.tickers[q].o > 0) =>
          \A p \in PollPairs :
              /\ Posted(p) <=> (/\ PollDivergence(p) # None
                                /\ ~RLess(RAbs(PollDivergence(p)[1]),
                                          Rat(POLL_ALERT_PCT, 1)))
              /\ state[p] = None => ~Posted(p)]_vars

-----------------------------------------------------------------------------
(* The digest's candidates *)

\* the pairs a run of rankAndDigest started now would collect
Candidates == {digestRows[i].pair : i \in 1..Len(digestRows)}

\* the trend-buffer samples of p inside the digest window (the last 5 minutes)
InWindow(p) ==
    SelectSeq(perPair[p].buf, LAMBDA x : x.ts >= clock \div 1000 - 300)

\* whether |mean of the divergences of w| is at least the floor; w not empty
MeanReachesFloor(w) ==
    LET s == RAbs(sumDiff(w))
    IN  s.n * 100 >= DIGEST_MIN_ABS_DELTA_PCT * s.d * Len(w)

\* C22 (as stated): a digest cycle includes a pair as a candidate exactly when
\* the pair has a last observation, has at least one trend-buffer sample inside
\* the digest window, and |mean of those samples' divergences| is at least the
\* minimum-significance floor.
C22_CandidateWithOneSample ==
    Lookback =>
        \A p \in Pairs :
            p \in Candidates <=>
                /\ perPair[p].last # None
                /\ Len(InWindow(p)) >= 1
                /\ MeanReachesFloor(InWindow(p))

\* C22: a digest cycle includes a pair as a candidate exactly when the pair
\* has a last observation, has at least two trend-buffer samples inside the
\* digest window, and |mean of those samples' divergences| is at least the
\* minimum-significance floor.
C22_CandidateWithTwoSamples ==
    Lookback =>
        \A p \in Pairs :
            p \in Candidates <=>
                /\ perPair[p].last # None
                /\ Len(InWindow(p)) >= 2
                /\ MeanReachesFloor(InWindow(p))

\* rankAndDigest has just run while a pair had a single sample in the window,
\* above the floor, and did not list it
C22_Witness ==
    /\ Lookback
    /\ ev.op = "digest"
    /\ \E q \in Pairs :
          /\ Len(InWindow(q)) = 1
          /\ MeanReachesFloor(InWindow(q))
          /\ q \notin lastDigest[1].members

-----------------------------------------------------------------------------
(* The digest's list *)

\* rows of s that are winners (average divergence >= 0), resp. losers
Winners(s) == {i \in 1..Len(s) : s[i].avgDiff.n >= 0}
Losers(s) == {i \in 1..Len(s) : s[i].avgDiff.n < 0}

\* row i is among the n best of the rows I of s (largest |avgDiff| first)
AmongBest(s, I, i, n) ==
    Cardinality({j \in I : RLess(RAbs(s[i].avgDiff), RAbs(s[j].avgDiff))}) < n

Listed(out) == {out[k].pair : k \in 1..Len(out)}

\* C23 (as stated): a digest lists winners (average divergence >= 0,
\* descending) and losers (average divergence < 0, most negative first) as two
\* separate lists each capped at top-N, so that up to N winners and up to N
\* losers can appear in the same digest: every candidate strictly among the N
\* best of its sign is listed.
C23_WinnersAndLosers ==
    Returned("rankRows") =>
        LET rows == call.arg.rows
            n == call.arg.n
        IN  \A i \in 1..Len(rows) :
                (\/ i \in Winners(rows) /\ AmongBest(rows, Winners(rows), i, n)
                 \/ i \in Losers(rows) /\ AmongBest(rows, Losers(rows), i, n))
                    => rows[i].pair \in Listed(call.out)

\* C23: a digest lists one list, winners and losers together, in descending
\* order of |average divergence| (ties in candidate order), capped at top-N
\* rows in total.
C23_OneListByMagnitude ==
    Returned("rankRows") =>
        LET rows == call.arg.rows
            n == call.arg.n
            out == call.out
        IN  /\ Len(out) = Min(n, Len(rows))
            /\ \A k \in 1..Len(out) : \E i \in 1..Len(rows) : rows[i] = out[k]
            /\ \A k \in 1..(Len(out) - 1) :
                   ~RLess(RAbs(out[k].avgDiff), RAbs(out[k + 1].avgDiff))
            /\ \A i \in 1..Len(rows) :
                   rows[i].pair \notin Listed(out) =>
                       \A k \in 1..Len(out) :
                           ~RLess(RAbs(out[k].avgDiff), RAbs(rows[i].avgDiff))
            /\ \A i, j \in 1..Len(rows) :
                   (i < j /\ RAbs(rows[i].avgDiff) = RAbs(rows[j].avgDiff)
                      /\ rows[j].pair \in Listed(out))
                       => \E k, l \in 1..Len(out) :
                              k < l /\ out[k] = rows[i] /\ out[l] = rows[j]

\* the ranking of a winner at +4 and two losers at -6 with N = 2 has listed
\* the two losers and left the only winner out
C23_Witness ==
    /\ Returned("rankRows")
    /\ call.arg.n = 2
    /\ Len(call.arg.rows) = 3
    /\ call.arg.rows[1].avgDiff = Rat(4, 1)
    /\ call.arg.rows[2].avgDiff = Rat(-6, 1)
    /\ call.arg.rows[3].avgDiff = Rat(-6, 1)
    /\ Listed(call.out) = {RowPair(2), RowPair(3)}

-----------------------------------------------------------------------------
(* What a warm-up observation writes *)

\* the observation this step handled for p found no lookback reference: the
\* long buffer, the new sample included, holds nothing LOOKBACK_HOURS old
NoReference(p) == sampleAtLookback(perPair'[p], clock' \div 1000) = None

\* C24: in the lookback variant, an observation processed while no lookback
\* reference exists changes only the pair's last observation and (at most)
\* its long buffer and last minute bucket: the three metrics, the short
\* trend buffer, the alert state (and the digest state, and every other pair)
\* are unchanged and no notification is emitted.
C24_WarmupWritesLastOnly ==
    [][Lookback =>
          \A p \in Pairs : (Ticker(p) /\ NoReference(p)) =>
              /\ perPair' = [perPair EXCEPT
                                ![p].last = perPair'[p].last,
                                ![p].daybuf = perPair'[p].daybuf,
                                ![p].lastMinuteBucket = perPair'[p].lastMinuteBucket]
              /\ perPair'[p].last[1].ts = clock' \div 1000
              /\ sent' = sent]_vars

\* a warm-up observation has just replaced the last observation of a pair and
\* added a second minute sample to its long buffer
C24_Witness ==
    /\ Lookback
    /\ \E p \in Pairs :
          /\ ev.op = "ticker" /\ ev.pair = p
          /\ sampleAtLookback(perPair[p], clock \div 1000) = None
          /\ Len(perPair[p].daybuf) = 2
          /\ Last(perPair[p].daybuf).ts = clock \div 1000
          /\ perPair[p].last[1].vol24 # perPair[p].daybuf[1].vol24
          /\ perPair[p].buf = <<>>

-----------------------------------------------------------------------------
(* The buffers *)

\* the timestamps of s never decrease, resp. always increase
NonDecreasing(s) == \A i \in 1..(Len(s) - 1) : s[i].ts <= s[i + 1].ts
Increasing(s) == \A i \in 1..(Len(s) - 1) : s[i].ts < s[i + 1].ts

\* C25: with observations of a pair arriving at non-decreasing timestamps,
\* the pair's short buffer is ordered by non-decreasing timestamp and its
\* long buffer by strictly increasing timestamp, with at most one entry per
\* minute bucket floor(ts / 60), after any sequence of observations.
C25_BuffersOrdered ==
    \A p \in Pairs :
        /\ NonDecreasing(perPair[p].buf)
        /\ Lookback =>
              LET d == perPair[p].daybuf
              IN  /\ Increasing(d)
                  /\ \A i, j \in 1..Len(d) :
                         i # j => d[i].ts \div 60 # d[j].ts \div 60

\* after the warm-up, two observations seconds apart have fallen into one
\* minute bucket: both are in the short buffer, one in the long buffer
C25_Witness ==
    /\ Lookback
    /\ \E p \in Pairs :
          LET S == perPair[p]
          IN  /\ Len(S.buf) = 2
              /\ S.buf[1].ts < S.buf[2].ts
              /\ S.buf[1].ts \div 60 = S.buf[2].ts \div 60
              /\ Len(S.daybuf) = 2
              /\ Last(S.daybuf).ts = S.buf[1].ts

\* max(window * K, minimum horizon) of the running iteration, seconds
Horizon ==
    IF Lookback THEN Max(RATE_WINDOW_SEC * 10, 600) ELSE Max(RATE_WINDOW_SEC * 6, 300)

\* a is what is left of b once a prefix of b is removed
IsSuffix(a, b) == \E k \in 0..Len(b) : a = SubSeq(b, k + 1, Len(b))

\* the short buffer of p after this step is what a prefix eviction and at
\* most one push of the new sample leave of the buffer before it
PrefixEvicted(p) ==
    LET old == perPair[p].buf
        new == perPair'[p].buf
    IN  \/ IsSuffix(new, old)
        \/ /\ new # <<>>
           /\ Last(new).ts = clock' \div 1000
           /\ IsSuffix(SubSeq(new, 1, Len(new) - 1), old)

\* C26 (as stated): after every processed observation with timestamp ts,
\* every entry of the pair's short buffer satisfies ts - entry.ts <= horizon
\* (max(window * K, minimum horizon)); eviction only ever removes a prefix of
\* the buffer.
C26_WithinHorizonOfLast ==
    /\ [](\A p \in Pairs :
              perPair[p].last # None =>
                  \A i \in 1..Len(perPair[p].buf) :
                      perPair[p].last[1].ts - perPair[p].buf[i].ts <= Horizon)
    /\ [][\A p \in Pairs : Ticker(p) => PrefixEvicted(p)]_vars

\* C26: after every processed observation with timestamp ts that computes the
\* signal (every observation in the short-window iterations, one that finds a
\* lookback reference in the lookback variant), every entry of the pair's
\* short buffer satisfies ts - entry.ts <= horizon; a warm-up observation of
\* the lookback variant leaves the short buffer as it was; eviction only ever
\* removes a prefix of the buffer.
C26_ShortBufferWithinHorizon ==
    [][\A p \in Pairs : Ticker(p) =>
          /\ PrefixEvicted(p)
          /\ IF Lookback /\ NoReference(p)
             THEN perPair'[p].buf = perPair[p].buf
             ELSE \A i \in 1..Len(perPair'[p].buf) :
                      (clock' \div 1000) - perPair'[p].buf[i].ts <= Horizon]_vars

\* an observation has evicted the oldest sample of the short buffer and kept
\* the one after it
C26_Witness ==
    /\ ~Lookback
    /\ ev.op = "ticker"
    /\ ev.n = 3
    /\ \E p \in Pairs :
          /\ Len(perPair[p].buf) = 2
          /\ perPair[p].buf[2].ts = clock \div 1000
          /\ perPair[p].buf[2].ts - perPair[p].buf[1].ts = 200

\* max(lookbackHours + 2, 26) hours, in seconds
KeepSec == Max(LOOKBACK_HOURS + 2, 26) * 3600

\* C27 (as stated): after every processed observation with timestamp ts in
\* the lookback variant, every entry of the pair's long buffer satisfies
\* entry.ts >= ts - keepSec, including after observations that fall in an
\* already-recorded minute bucket.
C27_LongBufferWithinKeep ==
    Lookback =>
        \A p \in Pairs :
            perPair[p].last # None =>
                \A i \in 1..Len(perPair[p].daybuf) :
                    perPair[p].daybuf[i].ts >= perPair[p].last[1].ts - KeepSec

\* C27: after every processed observation in the lookback variant, every
\* entry of the pair's long buffer satisfies entry.ts >= tsNew - keepSec,
\* where tsNew is the timestamp of the newest entry, the observation that
\* opened the current minute bucket; an observation in an already-recorded
\* bucket trims nothing, so against its own timestamp ts (less than one
\* bucket later) the bound is entry.ts > ts - keepSec - 60.
C27_LongBufferWithinKeepOfNewest ==
    Lookback =>
        \A p \in Pairs :
            perPair[p].last # None =>
                LET d == perPair[p].daybuf
                    ts == perPair[p].last[1].ts
                IN  /\ d # <<>>
                    /\ Last(d).ts <= ts
                    /\ ts - Last(d).ts < DAYBUF_RES_SEC
                    /\ \A i \in 1..Len(d) :
                           /\ d[i].ts >= Last(d).ts - KeepSec
                           /\ d[i].ts > ts - KeepSec - 60

\* an observation in an already-recorded minute bucket has left in the long
\* buffer a sample older than its own keep limit
C27_Witness ==
    /\ Lookback
    /\ ev.op = "ticker"
    /\ \E p \in Pairs :
          LET d == perPair[p].daybuf
              ts == perPair[p].last[1].ts
          IN  /\ ev.pair = p
              /\ Len(d) = 2
              /\ ts > Last(d).ts
              /\ d[1].ts = Last(d).ts - KeepSec
              /\ d[1].ts < ts - KeepSec

-----------------------------------------------------------------------------
(* The reference samples *)

\* C28: sampleAtLookback returns the long-buffer entry with the greatest
\* timestamp that is <= now - lookbackHours * 3600, and returns null exactly
\* when the buffer is empty or every entry is newer than that target.
C28_LatestAtOrBeforeTarget ==
    Lookback =>
        \A p \in Pairs :
            LET d == perPair[p].daybuf
                now == clock \div 1000
                target == now - LOOKBACK_HOURS * 3600
                ref == sampleAtLookback(perPair[p], now)
            IN  /\ ref = None <=> (d = <<>> \/ \A i \in 1..Len(d) : d[i].ts > target)
                /\ ref # None =>
                       /\ \E i \in 1..Len(d) : d[i] = ref[1]
                       /\ ref[1].ts <= target
                       /\ \A i \in 1..Len(d) : d[i].ts <= target => d[i].ts <= ref[1].ts

\* an observation has found two samples at or before its target, of
\* different volumes, and has measured the volume against the later one
C28_Witness ==
    /\ Lookback
    /\ ev.op = "ticker"
    /\ \E p \in Pairs :
          LET d == perPair[p].daybuf
              target == clock \div 1000 - LOOKBACK_HOURS * 3600
          IN  /\ ev.pair = p
              /\ Len(d) = 3
              /\ d[1].ts < d[2].ts
              /\ d[2].ts <= target
              /\ d[3].ts = clock \div 1000
              /\ d[1].vol24 # d[2].vol24
              /\ sampleAtLookback(perPair[p], clock \div 1000) = Some(d[2])
              /\ perPair[p].vol24Pct = PctChange(d[3].vol24, d[2].vol24)
              /\ perPair[p].vol24Pct # PctChange(d[3].vol24, d[1].vol24)

\* the short buffer computeVelocity looks the reference up in, were an
\* observation of volume vol24 handled now: trimmed and without the new
\* sample in the second iteration, with the new sample pushed and then
\* trimmed in the first
LookupBuffer(p, vol24) ==
    LET now == clock \div 1000
    IN  IF variant = "stepwise" THEN evict(perPair[p].buf, now, Horizon)
        ELSE evict(Append(perPair[p].buf,
                          [ts |-> now, vol24 |-> vol24, diff |-> perPair[p].diffPct]),
                   now, Horizon)

\* the reference computeVelocity would choose in that buffer
ChosenReference(p, vol24) ==
    IF variant = "stepwise"
    THEN olderSample(LookupBuffer(p, vol24), clock \div 1000, vol24)
    ELSE olderSampleV1(LookupBuffer(p, vol24), clock \div 1000)

\* C29: in the short-window iterations, the reference sample chosen by
\* computeVelocity is the newest short-buffer entry that is at least
\* RATE_WINDOW_SEC older than the current timestamp, and the oldest buffered
\* entry when no entry is that old.  (With no buffered entry at all, on the
\* first observation of the second iteration, the reference is a sample one
\* second back that carries the current volume.)
C29_ReferenceSample ==
    (variant \in {"stepwise", "escalation"}) =>
        \A p \in Pairs : \A t \in BufferTickers :
            LET now == clock \div 1000
                b == LookupBuffer(p, t.vol24)
                old == {i \in 1..Len(b) : now - b[i].ts >= RATE_WINDOW_SEC}
                ref == ChosenReference(p, t.vol24)
            IN  /\ old # {} =>
                      \E i \in old : /\ ref = b[i]
                                     /\ \A j \in old : j <= i /\ b[j].ts <= b[i].ts
                /\ (old = {} /\ b # <<>>) =>
                      /\ ref = b[1]
                      /\ \A j \in 1..Len(b) : b[1].ts <= b[j].ts
                /\ b = <<>> => ref = [ts |-> now - 1, vol24 |-> t.vol24]

\* the second iteration has handled an observation with two buffered samples
\* both older than the window, of different volumes, and has measured the
\* velocity against the later of the two
C29_Witness ==
    /\ variant = "stepwise"
    /\ ev.op = "ticker"
    /\ \E p \in Pairs :
          LET b == perPair[p].buf
              now == clock \div 1000
          IN  /\ ev.pair = p
              /\ Len(b) = 3
              /\ b[3].ts = now
              /\ now - b[2].ts >= RATE_WINDOW_SEC
              /\ b[1].ts < b[2].ts
              /\ b[1].vol24 # b[2].vol24
              /\ perPair[p].volVelPct =
                     Rat((b[3].vol24 - b[2].vol24) * 360000,
                         b[2].vol24 * (now - b[2].ts))
              /\ perPair[p].volVelPct #
                     Rat((b[3].vol24 - b[1].vol24) * 360000,
                         b[1].vol24 * (now - b[1].ts))

-----------------------------------------------------------------------------
(* Numbers that are not finite *)

\* C30: for any parsed ticker input, including zero reference volume, zero
\* reference price, zero trailing average and unparsable numeric fields, no
\* stored metric (velocity, price change, divergence) and no trend-buffer
\* sample of any pair is ever NaN or +-Infinity.
C30_StoredFinite ==
    \A p \in Pairs :
        /\ IsFinite(perPair[p].vol24Pct)
        /\ IsFinite(perPair[p].price24Pct)
        /\ IsFinite(perPair[p].diffPct)
        /\ \A i \in 1..Len(perPair[p].buf) : IsFinite(perPair[p].buf[i].diff)

-----------------------------------------------------------------------------
(* Pairs do not depend on each other *)

\* the pair states after the handler has run for pair p with payload t at
\* time now
Handled(pp, p, t, now) ==
    storePair(pp, p,
              computeFromTicker(pp[p], p, now \div 1000, t.vol24, t.price, t.avg24,
                                now, <<>>).S)

\* two observations of different pairs, the second taken d ms after the first,
\* leave the same pair states in either order of handling
Commute(p, t, q, u, d) ==
    Handled(Handled(perPair, p, t, clock), q, u, clock + d)
        = Handled(Handled(perPair, q, u, clock + d), p, t, clock)

\* C31: processing an observation for pair P (metrics update plus alert
\* evaluation) leaves the state of every other pair unchanged, so observations
\* of different pairs commute: handling two of them in either order, each with
\* its own time of arrival, yields the same pair states, and so does any
\* interleaving of two pairs' streams that keeps each pair's own order.
C31_PairsIndependent ==
    /\ [][\A p \in Pairs : Ticker(p) =>
              \A q \in Pairs \ {p} : perPair'[q] = perPair[q]]_vars
    /\ [](\A p \in Pairs, q \in Pairs : p # q =>
              \A t \in DigestTickers, u \in DigestTickers, d \in {0} \cup Steps :
                  Commute(p, t, q, u, d))

\* an observation of one pair has been handled while the other pair holds an
\* alert level and a trend buffer of its own
C31_Witness ==
    /\ ev.op = "ticker"
    /\ \E p \in Pairs, q \in Pairs :
          /\ p # q
          /\ ev.pair = q
          /\ perPair[q].last # None
          /\ perPair[p].alert.level # 0
          /\ perPair[p].buf # <<>>

-----------------------------------------------------------------------------
(* The trend *)

\* the entry recentSlope compares the newest one with
Older(buf) == IF Len(buf) = 2 THEN buf[1] ELSE buf[Len(buf) - 2]

\* C32: recentSlope returns 0 when the trend buffer holds fewer than 2
\* samples, and otherwise (newest.diff - older.diff) / max(1, newest.ts -
\* older.ts), where older is the entry two positions before the newest, or
\* the oldest entry when the buffer holds exactly 2 samples.
C32_RecentSlope ==
    Returned("recentSlope") =>
        LET buf == call.arg.buf
            n == Len(buf)
        IN  IF n < 2 THEN call.out = Zero
            ELSE LET dt == IF buf[n].ts - Older(buf).ts >= 1
                           THEN buf[n].ts - Older(buf).ts ELSE 1
                 IN  Rat(call.out.n * dt, call.out.d)
                         = RSub(buf[n].diff, Older(buf).diff)

\* the slope of a buffer of four samples whose last three differ in
\* divergence and in time has been taken
C32_Witness ==
    /\ Returned("recentSlope")
    /\ Len(call.arg.buf) = 4
    /\ call.arg.buf[2].diff # call.arg.buf[3].diff
    /\ call.arg.buf[3].diff # call.arg.buf[4].diff
    /\ call.arg.buf[2].ts < call.arg.buf[3].ts
    /\ call.arg.buf[3].ts < call.arg.buf[4].ts
    /\ call.out # Zero

-----------------------------------------------------------------------------
(* The velocity of the short-window iteration *)

\* this step is computeVelocity for p, and the metrics it stores are the ones
\* of the formulas: velocity * dt = (volume - reference volume) / reference
\* volume * 3600 * 100 with dt = max(1, now - reference.ts), and price change
\* * average = (price - average) * 100
VelocityFormula(p) ==
    LET o == perPair'[p].last[1]
        ref == ChosenReference(p, o.vol24)
        dt == IF o.ts - ref.ts >= 1 THEN o.ts - ref.ts ELSE 1
        vel == perPair'[p].volVelPct
        pc == perPair'[p].priceChangePct
    IN  /\ ref.vol24 > 0 /\ o.avg24 > 0
        /\ Rat(vel.n * dt, vel.d) = Rat((o.vol24 - ref.vol24) * 360000, ref.vol24)
        /\ Rat(pc.n * o.avg24, pc.d) = Rat((o.price - o.avg24) * 100, 1)
        /\ perPair'[p].diffPct = RSub(vel, pc)

\* this step handles volume 1100, price 110, average 100 for p, whose previous
\* observation, 3600 s earlier, had volume 1000
HourExample(p) ==
    /\ Ticker(p)
    /\ perPair[p].last # None
    /\ perPair[p].last[1].vol24 = 1000
    /\ perPair[p].last[1].ts = (clock' \div 1000) - 3600
    /\ perPair'[p].last[1].vol24 = 1100
    /\ perPair'[p].last[1].price = 110
    /\ perPair'[p].last[1].avg24 = 100

-----------------------------------------------------------------------------
(* Delivery failures in the polling monitor *)

\* C34: in the polling monitor's check(), a failure to deliver the Slack
\* message for one pair does not propagate into the poll cycle: the remaining
\* pairs of that cycle are still processed, their state entries are updated,
\* and the results are cached and broadcast.  (Stated for the cycles whose
\* open prices are all positive, where no helper throws.)
C34_FailedPostContained ==
    [][(CheckRun /\ \A q \in PollPairs : ev'.tickers[q].o > 0) =>
          /\ \A p \in PollPairs :
                /\ state'[p] # None
                /\ state'[p][1].volume = ev'.tickers[p].v
                /\ \E i \in 1..Len(ev'.results) : ev'.results[i].pair = p
          /\ latestResults' = ev'.results
          /\ ev'.broadcast = Some(ev'.results)]_vars

-----------------------------------------------------------------------------
(* A divergence that changes its sign and keeps its size *)

\* the rounded divergence maybeAlert reads in this step, hundredths of a percent
DiffNow(p) == pct(perPair'[p].diffPct)

\* how many whole steps |x| lies above the threshold, -1 below the threshold
Bucket(x) ==
    IF Abs(x) < ALERT_DIFF_THRESHOLD_PCT THEN -1
    ELSE (Abs(x) - ALERT_DIFF_THRESHOLD_PCT) \div ALERT_LEVEL_STEP_PCT

\* lookback variant: this step brings p a divergence of the size of the
\* stored level and of the other sign
FlipLookback(p) ==
    /\ Lookback
    /\ Updated(p)
    /\ perPair[p].alert.level # 0
    /\ Bucket(DiffNow(p)) = Bucket(perPair[p].alert.level)
    /\ Sign(DiffNow(p)) = -Sign(perPair[p].alert.level)

\* stepwise variant: the step index is the stored one, the direction is not
FlipStepwise(p) ==
    /\ variant = "stepwise"
    /\ Ticker(p)
    /\ perPair[p].alert.stepIndex > 0
    /\ Bucket(DiffNow(p)) + 1 = perPair[p].alert.stepIndex
    /\ (IF DiffNow(p) >= 0 THEN 1 ELSE -1) = -perPair[p].alert.sign

\* the reminder interval of the stepwise variant has not elapsed in this step
Recent(p) == clock' - perPair[p].alert.lastTime < ALERT_MIN_MS

\* C35 as stated: a change of the divergence sign between levels of equal
\* magnitude (stored +L, new -L, or the reverse) is a level change: when not
\* blocked by the cooldown it emits a step notification and the stored signed
\* level/direction becomes the new one.
C35_FlipIsLevelChange ==
    [][\A p \in Pairs :
          /\ (FlipLookback(p) /\ ~Cooling(p)) =>
                /\ Len(sent') = Len(sent) + 1
                /\ Last(sent').kind = "step"
                /\ perPair'[p].alert.level = -perPair[p].alert.level
          /\ (FlipStepwise(p) /\ ~Recent(p)) =>
                /\ Len(sent') = Len(sent) + 1
                /\ Last(sent').kind \in {"UP", "DOWN"}
                /\ perPair'[p].alert.sign = -perPair[p].alert.sign]_vars

\* C35, amended: in the lookback variant a change of sign between levels of
\* equal magnitude is a level change: when not blocked by the cooldown it
\* emits one step notification, UP or DOWN by the sign of the move, of size
\* 2L, and the stored level becomes the new one.  In the stepwise variant it
\* is not: the step index has no sign, no UP or DOWN notification is emitted,
\* within ALERT_MIN_INTERVAL_SEC of the last notification nothing is sent and
\* the stored direction stays the old one, and after it the periodic REMINDER
\* is sent and stores the new direction.
C35_FlipIsLevelChangeInLookback ==
    [][\A p \in Pairs :
          /\ (FlipLookback(p) /\ ~Cooling(p)) =>
                /\ Len(sent') = Len(sent) + 1
                /\ SubSeq(sent', 1, Len(sent)) = sent
                /\ Last(sent').kind = "step"
                /\ Last(sent').pair = p
                /\ Last(sent').dir = IF perPair[p].alert.level < 0 THEN "UP" ELSE "DOWN"
                /\ Last(sent').delta = 2 * Abs(perPair[p].alert.level)
                /\ Last(sent').level = Abs(perPair[p].alert.level)
                /\ Last(sent').positive = (perPair[p].alert.level < 0)
                /\ perPair'[p].alert = [level |-> -perPair[p].alert.level,
                                        lastAt |-> clock']
          /\ (FlipStepwise(p) /\ Recent(p)) =>
                /\ sent' = sent
                /\ perPair'[p].alert = perPair[p].alert
          /\ (FlipStepwise(p) /\ ~Recent(p)) =>
                /\ Len(sent') = Len(sent) + 1
                /\ Last(sent').kind = "REMINDER"
                /\ Last(sent').moved = 0
                /\ perPair'[p].alert.stepIndex = perPair[p].alert.stepIndex
                /\ perPair'[p].alert.sign = -perPair[p].alert.sign]_vars

\* the lookback variant has announced a level -L and then, the cool-down
\* over, a move of 2L up to +L
C35_Witness ==
    /\ Lookback
    /\ \E p \in Pairs :
          /\ JustUpdated(p)
          /\ Len(sent) = 2
          /\ sent[1].kind = "step" /\ ~sent[1].positive
          /\ sent[2].kind = "step" /\ sent[2].positive
          /\ sent[2].at = clock
          /\ sent[2].dir = "UP"
          /\ sent[2].level = sent[1].level
          /\ sent[2].delta = 2 * sent[1].level
          /\ perPair[p].alert.level = sent[2].level

-----------------------------------------------------------------------------
(* A level change the cool-down has stopped *)

\* no sample of p is a lookback old: its observations are in warm-up and
\* carry no level
NoLevel(p) == sampleAtLookback(perPair[p], clock \div 1000) = None

\* C36: in the lookback variant, if a level change is suppressed by the
\* cooldown and observations for that pair keep arriving with a quantized
\* level different from the stored level, then a notification for that pair
\* is eventually emitted: the first such observation processed after the
\* cooldown has elapsed fires, reporting the move relative to the stored
\* (last announced) level.  (A pending change ends by a notification, by an
\* observation at the stored level, or the pair falls back into warm-up; and
\* it ends by nothing but the first two.)
C36_SuppressedChangeFires ==
    /\ \A p \in {AlertPair} : Pending(p) ~> (~Pending(p) \/ NoLevel(p))
    /\ [][\A p \in {AlertPair} :
             /\ (Updated(p) /\ NewLevel(p) # perPair[p].alert.level /\ ~Cooling(p)) =>
                   /\ Len(sent') = Len(sent) + 1
                   /\ Last(sent').pair = p
                   /\ Last(sent').kind \in {"step", "disarm"}
                   /\ Last(sent').kind = "step" =>
                         /\ Last(sent').delta = Abs(NewLevel(p) - perPair[p].alert.level)
                         /\ Last(sent').dir = IF NewLevel(p) > perPair[p].alert.level
                                              THEN "UP" ELSE "DOWN"
                   /\ Last(sent').kind = "disarm" =>
                         Last(sent').positive = (perPair[p].alert.level > 0)
                   /\ perPair'[p].alert.level = NewLevel(p)
             /\ (Pending(p) /\ ~Pending(p)') =>
                   \/ Len(sent') = Len(sent) + 1
                   \/ Updated(p) /\ NewLevel(p) = perPair[p].alert.level]_vars

\* a level was announced, a second level arrived within the cool-down and
\* was stopped, and the first observation past the cool-down has fired with
\* the move from the announced level
C36_Witness ==
    \E p \in {AlertPair} :
        LET b == perPair[p].buf
        IN  /\ JustUpdated(p)
            /\ Len(sent) = 2
            /\ sent[1].kind = "step"
            /\ sent[2].at = clock
            /\ sent[2].at - sent[1].at >= ALERT_MIN_MS
            /\ \E i \in 1..(Len(b) - 1) :
                  /\ b[i].ts * 1000 > sent[1].at
                  /\ b[i].ts * 1000 - sent[1].at < ALERT_MIN_MS
                  /\ Abs(quantizeLevel(Rat(pct(b[i].diff), 1))) # sent[1].level
            /\ sent[2].kind = "step" =>
                  sent[2].delta = Abs(perPair[p].alert.level
                                        - (IF sent[1].positive THEN sent[1].level
                                           ELSE -sent[1].level))

-----------------------------------------------------------------------------
(* The first alert of the escalation iteration *)

\* C37: in the escalation variant (levelForDiff with lastLevel/lastTime), for
\* a pair pre-seeded from the configured pair list, the first observation
\* whose rounded divergence is at or above the threshold emits an alert,
\* because its level increased from the pair's initial no-alert state.
C37_FirstCrossingAlerts ==
    [][variant = "escalation" =>
        \A p \in Pairs :
            (/\ Ticker(p)
             /\ AlertsOf(p) = <<>>
             /\ pct(perPair'[p].diffPct) >= ALERT_DIFF_THRESHOLD_PCT)
            => /\ Len(sent') = Len(sent) + 1
               /\ Last(sent').pair = p]_vars

-----------------------------------------------------------------------------
(* The baseline of the polling monitor's velocity *)

\* the row of pair p in the results of the cycle just run, if it has one
RowOf(results, p) == SelectSeq(results, LAMBDA r : r.pair = p)

\* the stored entry of p has a change of volume and a positive volume
HasBaseline(st, p) ==
    /\ st[p] # None
    /\ st[p][1].pct # None
    /\ st[p][1].volume > 0

\* C38: in the polling monitor, a pair's volumeVelocity is null on its first
\* and second successful polls and becomes non-null only from the third
\* consecutive poll with positive previous volume; pairs with null velocity
\* never appear in the ranked top/second output.
C38_VelocityFromThirdPoll ==
    /\ [](\A p \in PollPairs :
            (state[p] # None /\ state[p][1].pct # None) => ev.n >= 2)
    /\ [][ev'.op = "check" =>
            /\ \A p \in PollPairs :
                 LET row == RowOf(ev'.results, p)
                 IN  /\ Len(row) <= 1
                     /\ row # <<>> =>
                          /\ row[1].volumeVelocity # None <=> HasBaseline(state, p)
                          /\ row[1].volumeVelocity # None => ev'.n >= 3
                          /\ state[p] = None => state'[p][1].pct = None
                          /\ state'[p][1].pct # None <=>
                                 (state[p] # None /\ state[p][1].volume > 0)
            /\ \A i \in 1..Len(ev'.logged) :
                 /\ ev'.logged[i].volumeVelocity # None
                 /\ \E j \in 1..Len(ev'.results) : ev'.results[j] = ev'.logged[i]
            /\ ev'.broadcast # None =>
                 Len(ev'.logged) =
                     Min(2, Len(SelectSeq(ev'.results,
                                          LAMBDA r : r.volumeVelocity # None)))]_vars

\* a third cycle in which one pair has its velocity and is logged as the top,
\* and the other, still without a baseline, has none and is not logged
C38_Witness ==
    /\ ev.op = "check"
    /\ ev.n = 3
    /\ Len(ev.results) = 2
    /\ ev.results[1].volumeVelocity # None
    /\ ev.results[2].volumeVelocity = None
    /\ Len(ev.logged) = 1
    /\ ev.logged[1].pair = ev.results[1].pair

-----------------------------------------------------------------------------
(* What the timers and the snapshot requests can read *)

\* last, metrics and trend buffer of one pair fit together: nothing before
\* the first observation, and after it the newest sample of the buffer is
\* the stored divergence, which is the difference of the stored changes,
\* and no sample is newer than the last observation
Whole(S) ==
    /\ S.last = None =>
          /\ S.buf = <<>>
          /\ S.vol24Pct = Zero /\ S.price24Pct = Zero /\ S.diffPct = Zero
    /\ S.buf = <<>> => S.diffPct = Zero
    /\ S.buf # <<>> =>
          /\ S.last # None
          /\ Last(S.buf).diff = S.diffPct
          /\ S.diffPct = divergence(S.vol24Pct, S.price24Pct)
          /\ Last(S.buf).ts <= S.last[1].ts

\* the step applied one whole update to pair p: every assignment of
\* computeFromTicker for some ticker, at the clock of the step
Applied(p) ==
    \E t \in DigestTickers :
        perPair'[p] = computeFromTicker(perPair[p], p, clock \div 1000, t.vol24,
                                        t.price, t.avg24, clock, sent).S

\* C39: under any interleaving of ticker-message handling with the 2-second
\* snapshot timer, the digest timer and /api/snapshot requests, every
\* snapshot or digest reads each pair in a state where an observation update
\* has been applied either completely or not at all: it never sees a last
\* observation, metrics and trend buffer that belong to different stages of
\* one update.
C39_ReadsWholeUpdates ==
    /\ [](\A p \in Pairs : Whole(perPair[p]))
    /\ [][/\ \A p \in Pairs : perPair'[p] = perPair[p] \/ Applied(p)
          /\ (SnapshotRun \/ DigestRun) => perPair' = perPair]_vars

\* a digest run that read one pair with its metrics and a sample in its
\* buffer and another still in warm-up, with a last observation and no metrics
C39_Witness ==
    /\ ev.op = "digest"
    /\ \E p \in Pairs : perPair[p].buf # <<>> /\ perPair[p].diffPct # Zero
    /\ \E q \in Pairs : perPair[q].last # None /\ perPair[q].buf = <<>>

====
